---- MODULE Spec2Model ----
(***************************************************************************)
(* Model of the Blender build fetcher (package blender-launcher):          *)
(*   - the download/extract pipeline  utils/download.py                    *)
(*   - its progress watcher           ui/tui.py                            *)
(*   - the build reconciler           ui/tui.py                            *)
(***************************************************************************)
EXTENDS Integers, Sequences, FiniteSets, TLC

-----------------------------------------------------------------------------
(* Bounds *)

\* number of distinct versions the catalog offers
NumBuilds == 2

Versions == 1..NumBuilds

-----------------------------------------------------------------------------
(* Progress logs *)

\* the percentages the fetch tool may print (any order, any repetition)
PctValues == {30, 60, 100}

\* "no percentage in the log" / "no entry in the dict"
NoPct == 0 - 1

\* A scratch log: does the file exist, the LAST integer followed by '%' in
\* it, whether it holds an error marker ("ERROR" or "failed" in any case),
\* and whether it holds "Starting download" / "Downloading".
NoLog == [exists |-> FALSE, pct |-> NoPct, err |-> FALSE, start |-> FALSE]

EmptyLog == [exists |-> TRUE, pct |-> NoPct, err |-> FALSE, start |-> FALSE]

\* the None result of the log parser
None == [pct |-> NoPct, speed |-> "None"]

\* _get_progress_and_speed_from_log giving a result for every log that
\* exists, a percentage matched or not
get_progress_and_speed_from_log_unmatched(log) ==
  IF ~log.exists THEN None
  ELSE [pct |-> log.pct, speed |-> "rate"]

\* _get_progress_and_speed_from_log
get_progress_and_speed_from_log(log) ==
  IF ~log.exists THEN None
  ELSE IF log.pct # NoPct THEN [pct |-> log.pct, speed |-> "rate"]
  ELSE IF log.start THEN [pct |-> 0, speed |-> "Starting..."]
  ELSE None

\* _check_download_success accepting any reported percentage
check_download_success_any_percentage(log) ==
  /\ log.exists
  /\ ~log.err
  /\ get_progress_and_speed_from_log(log) # None

\* _check_download_success
check_download_success(log) ==
  /\ log.exists
  /\ ~log.err
  /\ LET result == get_progress_and_speed_from_log(log)
     IN  result # None /\ result.pct > 99

-----------------------------------------------------------------------------
(* Strings are sequences of character codes; a Python tuple of integers is a
   sequence of integers.  Both are compared the way Python compares them. *)

\* a < b for two sequences of integers: element-wise, a proper prefix first
RECURSIVE SeqLess(_, _)
SeqLess(a, b) ==
  IF b = <<>> THEN FALSE
  ELSE IF a = <<>> THEN TRUE
  ELSE IF Head(a) # Head(b) THEN Head(a) < Head(b)
  ELSE SeqLess(Tail(a), Tail(b))

\* str.split("."): the segments of s between the dots
RECURSIVE SplitDots(_)
SplitDots(s) ==
  IF \A i \in 1..Len(s) : s[i] # 46 THEN <<s>>
  ELSE LET k == CHOOSE i \in 1..Len(s) :
                   s[i] = 46 /\ \A j \in 1..(i - 1) : s[j] # 46
       IN  <<SubSeq(s, 1, k - 1)>> \o SplitDots(SubSeq(s, k + 1, Len(s)))

\* int(seg) succeeds: a non-empty run of decimal digits
IsDigits(seg) == seg # <<>> /\ \A i \in 1..Len(seg) : seg[i] \in 48..57

\* int(seg)
RECURSIVE ParseInt(_)
ParseInt(seg) ==
  IF seg = <<>> THEN 0
  ELSE 10 * ParseInt(SubSeq(seg, 1, Len(seg) - 1)) + (seg[Len(seg)] - 48)

\* str.lower() on ASCII
Lower(s) == [i \in 1..Len(s) |-> IF s[i] \in 65..90 THEN s[i] + 32 ELSE s[i]]

\* the strings the pools below are written with
S_stable == <<115, 116, 97, 98, 108, 101>>
S_alpha  == <<97, 108, 112, 104, 97>>
S_candidate == <<99, 97, 110, 100, 105, 100, 97, 116, 101>>
S_main   == <<109, 97, 105, 110>>
S_Main   == <<77, 97, 105, 110>>
S_ab     == <<97, 98>>
S_cd     == <<99, 100>>
V_2_2    == <<50, 46, 50>>
V_2_9    == <<50, 46, 57>>
V_2_10   == <<50, 46, 49, 48>>
V_git    == <<103, 105, 116>>

-----------------------------------------------------------------------------
(* Build records *)

\* LocalBuildInfo values a scan may return.  time and size are 0 when absent.
LocalPool ==
  { [version |-> V_2_9,  branch |-> S_main, risk_id |-> S_stable,
     hash |-> S_ab, size |-> 7, time |-> 5],
    [version |-> V_2_10, branch |-> <<>>,   risk_id |-> <<>>,
     hash |-> <<>>, size |-> 0, time |-> 0],
    [version |-> V_git,  branch |-> <<>>,   risk_id |-> <<>>,
     hash |-> <<>>, size |-> 3, time |-> 0] }

\* BlenderBuild values the catalog may return (two builds share version 2.9)
RemotePool ==
  { [version |-> V_2_9,  branch |-> S_main, risk_id |-> S_stable,
     hash |-> S_ab, size |-> 4, file_mtime |-> 5],
    [version |-> V_2_9,  branch |-> S_Main, risk_id |-> S_candidate,
     hash |-> S_cd, size |-> 6, file_mtime |-> 8],
    [version |-> V_2_10, branch |-> S_main, risk_id |-> S_alpha,
     hash |-> S_cd, size |-> 5, file_mtime |-> 9],
    [version |-> V_2_2,  branch |-> S_Main, risk_id |-> <<110>>,
     hash |-> <<>>, size |-> 2, file_mtime |-> 0] }

\* longest local map and longest remote list explored
MaxLocal == 2
MaxRemote == 2

\* sequences over S of length at most n
SeqsUpTo(S, n) == UNION {[1..k -> S] : k \in 0..n}

\* a dict keeps one entry per key
DistinctVersions(q) ==
  \A i, j \in 1..Len(q) : q[i].version = q[j].version => i = j

\* the dicts get_local_builds may return, in insertion order
LocalMaps == {q \in SeqsUpTo(LocalPool, MaxLocal) : DistinctVersions(q)}

\* the lists fetch_builds may return
RemoteLists == SeqsUpTo(RemotePool, MaxRemote)

\* LocalBuildInfo.hash, as read by getattr(local_info, "hash", "") or ""
local_hash(info) == info.hash

\* BlenderBuild.hash, as read by build.hash or ""
build_hash(build) == build.hash

-----------------------------------------------------------------------------
(* The reconciler: BlenderTUI._get_combined_build_list *)

\* the record made from a local build, lines 501-511
LocalRecord(info) ==
  [type |-> "local", version |-> info.version, branch |-> info.branch,
   risk_id |-> info.risk_id, hash |-> local_hash(info),
   size_mb |-> info.size, time |-> info.time]

\* the record made from an online build, lines 517-527
OnlineRecord(build) ==
  [type |-> "online", version |-> build.version, branch |-> build.branch,
   risk_id |-> build.risk_id, hash |-> build_hash(build),
   size_mb |-> build.size, time |-> build.file_mtime]

HasVersion(records, v) == \E i \in 1..Len(records) : records[i].version = v

\* AddOnline without the membership test of line 516
RECURSIVE AddOnlineKeepsDuplicates(_, _)
AddOnlineKeepsDuplicates(records, remote) ==
  IF remote = <<>> THEN records
  ELSE AddOnlineKeepsDuplicates(Append(records, OnlineRecord(Head(remote))),
                                Tail(remote))

\* lines 515-527: append every online build whose version is not yet a key
RECURSIVE AddOnline(_, _)
AddOnline(records, remote) ==
  IF remote = <<>> THEN records
  ELSE IF HasVersion(records, Head(remote).version)
       THEN AddOnline(records, Tail(remote))
       ELSE AddOnline(Append(records, OnlineRecord(Head(remote))), Tail(remote))

\* RecordMap filled from the online builds first: the online record wins
RecordMapOnlineWins(local, remote, fetched) ==
  LET locals == [i \in 1..Len(local) |-> LocalRecord(local[i])]
      online == IF fetched /\ remote # <<>> THEN AddOnline(<<>>, remote)
                ELSE <<>>
  IN  SelectSeq(locals, LAMBDA r : ~HasVersion(online, r.version)) \o online

\* lines 497-527: record_map.values(), in insertion order
RecordMap(local, remote, fetched) ==
  LET locals == [i \in 1..Len(local) |-> LocalRecord(local[i])]
  IN  IF fetched /\ remote # <<>> THEN AddOnline(locals, remote) ELSE locals

\* _RISK_ORDER.get(risk_id, 99)
RiskOrder(risk_id) ==
  IF risk_id = S_stable THEN 0
  ELSE IF risk_id = S_candidate THEN 1
  ELSE IF risk_id = S_alpha THEN 2
  ELSE 99

\* the key function of column 1 raises ValueError on a non-numeric segment
KeyRaises(column, d) ==
  /\ column \notin 2..7
  /\ \E i \in 1..Len(SplitDots(d.version)) : ~IsDigits(SplitDots(d.version)[i])

\* SortKey comparing the version column as text
SortKeyLexicographic(column, d) ==
  IF column = 2 THEN <<IF d.type = "local" THEN 0 ELSE 1>> \o d.version
  ELSE IF column = 3 THEN Lower(d.branch)
  ELSE IF column = 4 THEN <<RiskOrder(d.risk_id)>> \o d.risk_id
  ELSE IF column = 5 THEN d.hash
  ELSE IF column = 6 THEN <<d.size_mb>>
  ELSE IF column = 7 THEN <<d.time>>
  ELSE d.version

\* _SORT_KEYS[column](d), as a sequence of integers; any column that is not
\* a key of _SORT_KEYS gets the key of column 1
SortKey(column, d) ==
  IF column = 2 THEN <<IF d.type = "local" THEN 0 ELSE 1>> \o d.version
  ELSE IF column = 3 THEN Lower(d.branch)
  ELSE IF column = 4 THEN <<RiskOrder(d.risk_id)>> \o d.risk_id
  ELSE IF column = 5 THEN d.hash
  ELSE IF column = 6 THEN <<d.size_mb>>
  ELSE IF column = 7 THEN <<d.time>>
  ELSE LET segs == SplitDots(d.version)
       IN  [i \in 1..Len(segs) |-> ParseInt(segs[i])]

\* x goes before y in list.sort(key=..., reverse=...)
Before(column, reverse, x, y) ==
  IF reverse THEN SeqLess(SortKey(column, y), SortKey(column, x))
  ELSE SeqLess(SortKey(column, x), SortKey(column, y))

\* list.sort is stable, also with reverse=True: x is put behind every
\* element that does not come strictly after it
RECURSIVE InsertSorted(_, _, _, _)
InsertSorted(column, reverse, sorted, x) ==
  IF sorted = <<>> THEN <<x>>
  ELSE IF Before(column, reverse, x, Head(sorted))
       THEN <<x>> \o sorted
       ELSE <<Head(sorted)>> \o InsertSorted(column, reverse, Tail(sorted), x)

RECURSIVE SortRecords(_, _, _)
SortRecords(column, reverse, records) ==
  IF records = <<>> THEN <<>>
  ELSE InsertSorted(column, reverse,
                    SortRecords(column, reverse,
                                SubSeq(records, 1, Len(records) - 1)),
                    records[Len(records)])

\* _get_combined_build_list: the (type, version) pairs, or the exception of
\* the sort key
get_combined_build_list(local, remote, fetched, column, reverse) ==
  LET records == RecordMap(local, remote, fetched)
  IN  IF \E i \in 1..Len(records) : KeyRaises(column, records[i])
      THEN [raised |-> TRUE, list |-> <<>>]
      ELSE LET sorted == SortRecords(column, reverse, records)
           IN  [raised |-> FALSE,
                list |-> [i \in 1..Len(sorted) |->
                            <<sorted[i].type, sorted[i].version>>]]

-----------------------------------------------------------------------------
(* State *)

VARIABLES
  dirs,                 \* versions that have a pre-existing build directory
  archive,              \* versions whose archive file is in the download root
  extracted,            \* versions whose extract_path directory exists
  sidecar,              \* versions whose extract_path holds version.json
  executable,           \* versions whose extract_path holds the blender binary
  batch,                \* builds_to_download of the running batch
  log_file_paths,       \* the log_file_paths argument of download_multiple_builds
  logs,                 \* version -> scratch log
  fpc,                  \* version -> position of its fetch thread
  dpc,                  \* position of download_multiple_builds
  should_remove,
  versions_to_remove,
  successful_downloads,
  unpacked,             \* versions _extract_archive was called for
  tar_ok,               \* versions for which _extract_archive returned True
  completed_versions,
  result,               \* return value of download_multiple_builds
  wpc,                  \* position of _download_with_progress_tracking
  completed_builds,
  download_progress,    \* UIState.download_progress (NoPct: no entry)
  download_speed,       \* UIState.download_speed    ("": no entry)
  local_builds,         \* UIState.local_builds, in insertion order
  catalog,              \* what fetch_builds returns when it succeeds
  builds,               \* UIState.builds
  has_fetched,          \* UIState.has_fetched
  sort_column,          \* UIState.sort_column
  sort_reverse,         \* UIState.sort_reverse
  terminal_width,       \* BlenderTUI.terminal_width
  running,              \* the main loop of BlenderTUI.run is still going
  combined,             \* what _get_combined_build_list returned last
  cursor_position,      \* UIState.cursor_position
  selected_builds,      \* UIState.selected_builds, a set of versions
  current_page,         \* UIState.current_page
  root_builds,          \* what get_local_builds finds under DOWNLOAD_PATH
  disk,                 \* the entries of the download root matching blender-*
  call,                 \* the last call into utils/local_builds.py or
                        \* _create_version_info, with what it returned
  state,                \* UIState of the number-key revision, src/ui/tui.py
  later                 \* the batch of a download command given while the
                        \* watcher of the batch above is running

fsVars   == <<dirs, archive, extracted, sidecar, executable>>
dmbVars  == <<dpc, should_remove, versions_to_remove, successful_downloads,
              unpacked, tar_ok, completed_versions, result>>
uiVars   == <<download_progress, download_speed>>
pipeVars == <<dirs, archive, extracted, sidecar, executable, batch,
              log_file_paths, logs,
              fpc, dpc, should_remove, versions_to_remove,
              successful_downloads, unpacked, tar_ok, completed_versions,
              result, wpc, completed_builds, download_progress,
              download_speed>>
listVars == <<local_builds, catalog, builds, has_fetched, sort_column,
              sort_reverse, terminal_width, running, combined,
              cursor_position, selected_builds, current_page,
              root_builds>>
screenVars == <<local_builds, catalog, builds, has_fetched, sort_column,
                sort_reverse, terminal_width, running, combined,
                cursor_position, selected_builds, current_page>>
registryVars == <<disk, call>>
numberVars == <<state>>
overlapVars == <<later>>
vars     == <<pipeVars, listVars, registryVars, numberVars, overlapVars>>

\* log_file_paths=None, the default of the parameter
NoPaths == [given |-> FALSE, keys |-> {}]

\* the pipeline before a download command
PipeIdle(d, a) ==
  /\ dirs = d
  /\ archive = a
  /\ extracted = {}
  /\ sidecar = {}
  /\ executable = {}
  /\ batch = {}
  /\ log_file_paths = NoPaths
  /\ logs = [v \in Versions |-> NoLog]
  /\ fpc = [v \in Versions |-> "none"]
  /\ dpc = "none"
  /\ should_remove = FALSE
  /\ versions_to_remove = {}
  /\ successful_downloads = {}
  /\ unpacked = {}
  /\ tar_ok = {}
  /\ completed_versions = {}
  /\ result = "none"
  /\ wpc = "none"
  /\ completed_builds = {}
  /\ download_progress = [v \in Versions |-> NoPct]
  /\ download_speed = [v \in Versions |-> ""]

\* no download command while a batch is tracked
NoLater == [wpc |-> "none", batch |-> {}]

\* no entry in the download root looked at, no call made, the number-key
\* revision not started, one batch at most
RegistryIdle ==
  /\ disk = {}
  /\ call = [kind |-> "none"]
  /\ state = [running |-> FALSE]
  /\ later = NoLater

\* _DEFAULT_SORT_COLUMN
DEFAULT_SORT_COLUMN == 1

\* the widths a terminal is tried at
Widths == {70, 90, 110, 120}

\* UIState(), BlenderTUI.__init__ and the first display of BlenderTUI.run
ListStart(l, c, w) ==
  /\ local_builds = l
  /\ catalog = c
  /\ builds = <<>>
  /\ has_fetched = FALSE
  /\ sort_column = DEFAULT_SORT_COLUMN
  /\ sort_reverse = TRUE
  /\ terminal_width = w
  /\ cursor_position = 0
  /\ selected_builds = {}
  /\ current_page = "builds"
  /\ root_builds = l
  /\ combined = get_combined_build_list(l, <<>>, FALSE,
                                        DEFAULT_SORT_COLUMN, TRUE)
  /\ running = ~combined.raised

\* what a scan returns for the build directory of pipeline version v: the
\* fallback of _extract_build_info_from_directory, one record per version
DiskRecord(v) ==
  [version |-> <<48 + v>>, branch |-> <<>>, risk_id |-> <<>>,
   hash |-> <<>>, size |-> 0, time |-> 0]

\* get_local_builds over the build directories of the versions of S
RECURSIVE ScanDisk(_)
ScanDisk(S) ==
  IF S = {} THEN <<>>
  ELSE LET v == CHOOSE x \in S : \A y \in S : y <= x
       IN  Append(ScanDisk(S \ {v}), DiskRecord(v))

\* the download pipeline, started from a list of the local builds only
Init ==
  \E d \in SUBSET Versions, a \in SUBSET Versions :
    /\ PipeIdle(d, a)
    /\ ListStart(ScanDisk(d), <<>>, 120)
    /\ RegistryIdle

-----------------------------------------------------------------------------
(* Foreground: the download command *)

\* BlenderTUI._handle_download: pick the builds, create one scratch log per
\* build, reset the progress maps, start the tracking thread.
HandleDownload ==
  /\ wpc = "none"
  /\ \E b \in (SUBSET Versions) \ {{}} :
       /\ batch' = b
       /\ log_file_paths' = [given |-> TRUE, keys |-> b]
       /\ logs' = [v \in Versions |-> IF v \in b THEN EmptyLog ELSE logs[v]]
  /\ download_progress' = [v \in Versions |-> NoPct]
  /\ download_speed' = [v \in Versions |-> ""]
  /\ wpc' = "start"
  /\ UNCHANGED <<fsVars, fpc, dmbVars, completed_builds,
                 listVars, registryVars, numberVars, overlapVars>>

-----------------------------------------------------------------------------
(* The fetch threads: _download_file_with_log *)

\* open(log_file_path, "w") and the start of wget
FetchOpen(v) ==
  /\ fpc[v] = "ready"
  /\ fpc' = [fpc EXCEPT ![v] = "running"]
  /\ logs' = [logs EXCEPT ![v] = EmptyLog]
  /\ UNCHANGED <<fsVars, batch, log_file_paths, dmbVars, wpc, completed_builds, uiVars,
                 listVars, registryVars, numberVars, overlapVars>>

\* wget prints one more progress line
FetchProgress(v) ==
  /\ fpc[v] = "running"
  /\ \E p \in PctValues : logs' = [logs EXCEPT ![v].pct = p]
  /\ archive' = archive \cup {v}
  /\ UNCHANGED <<dirs, extracted, sidecar, executable, batch, log_file_paths, fpc, dmbVars, wpc,
                 completed_builds, uiVars,
                 listVars, registryVars, numberVars, overlapVars>>

\* wget exits 0: the last progress line is 100%
FetchExitOk(v) ==
  /\ fpc[v] = "running"
  /\ fpc' = [fpc EXCEPT ![v] = "done"]
  /\ logs' = [logs EXCEPT ![v].pct = 100]
  /\ archive' = archive \cup {v}
  /\ UNCHANGED <<dirs, extracted, sidecar, executable, batch, log_file_paths, dmbVars, wpc,
                 completed_builds, uiVars,
                 listVars, registryVars, numberVars, overlapVars>>

\* wget exits non-zero: CalledProcessError, "Download failed: ..." is
\* appended (open(..., "a") creates the file when it is gone); an IOError
\* of the append is ignored and leaves the log as wget wrote it
FetchExitFail(v) ==
  /\ fpc[v] = "running"
  /\ logs[v].pct < 100
  /\ fpc' = [fpc EXCEPT ![v] = "done"]
  /\ \/ logs' = [logs EXCEPT ![v].exists = TRUE, ![v].err = TRUE]
     \/ logs' = logs
  /\ UNCHANGED <<fsVars, batch, log_file_paths, dmbVars, wpc, completed_builds, uiVars,
                 listVars, registryVars, numberVars, overlapVars>>

\* any other exception (wget not runnable): "An error occurred during
\* download setup: ..." is appended, which holds no error marker
FetchSetupError(v) ==
  /\ fpc[v] = "ready"
  /\ fpc' = [fpc EXCEPT ![v] = "done"]
  /\ logs' = [logs EXCEPT ![v].exists = TRUE]
  /\ UNCHANGED <<fsVars, batch, log_file_paths, dmbVars, wpc, completed_builds, uiVars,
                 listVars, registryVars, numberVars, overlapVars>>

FetchExit(v) == FetchExitOk(v) \/ FetchExitFail(v) \/ FetchSetupError(v)

-----------------------------------------------------------------------------
(* download_multiple_builds *)

\* the thread is alive from its start until the function returns
DmbAlive == dpc \notin {"none", "returned"}

\* lines 145-183: delete left-over archives, collect the existing
\* directories, ask once for the whole batch
DmbPreflight ==
  /\ dpc = "preflight"
  /\ archive' = archive \ batch
  /\ versions_to_remove' = batch \cap dirs
  /\ IF batch \cap dirs # {}
     THEN \E answer \in BOOLEAN :
            IF answer
            THEN /\ should_remove' = TRUE
                 /\ dpc' = "threads"
                 /\ result' = result
            ELSE /\ should_remove' = FALSE
                 /\ dpc' = "returned"
                 /\ result' = "False"
     ELSE /\ should_remove' = FALSE
          /\ dpc' = "threads"
          /\ result' = result
  /\ UNCHANGED <<dirs, extracted, sidecar, executable, batch, log_file_paths, logs, fpc,
                 successful_downloads, unpacked, tar_ok, completed_versions, wpc,
                 completed_builds, uiVars,
                 listVars, registryVars, numberVars, overlapVars>>

\* lines 192-216: a build gets a thread when log_file_paths is given, not
\* empty, and holds a path for its version
threads(requested, paths) ==
  IF paths.given /\ paths.keys # {} THEN requested \cap paths.keys ELSE {}

\* lines 192-220: the threads are made, then all started
DmbStartThreads ==
  /\ dpc = "threads"
  /\ fpc' = [v \in Versions |->
              IF v \in threads(batch, log_file_paths) THEN "ready"
              ELSE fpc[v]]
  /\ dpc' = "join"
  /\ UNCHANGED <<fsVars, batch, log_file_paths, logs, should_remove, versions_to_remove,
                 successful_downloads, unpacked, tar_ok, completed_versions, result,
                 wpc, completed_builds, uiVars,
                 listVars, registryVars, numberVars, overlapVars>>

\* AllJoined waiting for one thread only
AnyJoined == \E v \in threads(batch, log_file_paths) : fpc[v] = "done"

\* the guard of lines 222-224: every thread joined
AllJoined == \A v \in threads(batch, log_file_paths) : fpc[v] = "done"

DmbJoin ==
  /\ dpc = "join"
  /\ AllJoined
  /\ dpc' = "check"
  /\ UNCHANGED <<fsVars, batch, log_file_paths, logs, fpc, should_remove, versions_to_remove,
                 successful_downloads, unpacked, tar_ok, completed_versions, result,
                 wpc, completed_builds, uiVars,
                 listVars, registryVars, numberVars, overlapVars>>

\* lines 226-252
DmbCheck ==
  /\ dpc = "check"
  /\ successful_downloads' =
       {v \in threads(batch, log_file_paths) :
          logs[v].exists /\ check_download_success(logs[v])}
  /\ dpc' = "remove"
  /\ UNCHANGED <<fsVars, batch, log_file_paths, logs, fpc, should_remove, versions_to_remove,
                 unpacked, tar_ok, completed_versions, result, wpc, completed_builds,
                 uiVars,
                 listVars, registryVars, numberVars, overlapVars>>

\* lines 254-270: the directories the removal loop goes through
RemovalTargets ==
  IF successful_downloads # {} /\ should_remove
  THEN versions_to_remove
  ELSE {}

\* rm -rf may fail for any of them; a failure is swallowed
DmbRemove ==
  /\ dpc = "remove"
  /\ \E failed \in SUBSET RemovalTargets :
       dirs' = dirs \ (RemovalTargets \ failed)
  /\ dpc' = "extract"
  /\ UNCHANGED <<archive, extracted, sidecar, executable, batch, log_file_paths, logs, fpc, should_remove,
                 versions_to_remove, successful_downloads, unpacked, tar_ok,
                 completed_versions, result, wpc, completed_builds, uiVars,
                 screenVars, registryVars, numberVars, overlapVars>>
  /\ root_builds' = ScanDisk(dirs' \cup extracted')

\* what unpacking one archive may leave behind
Outcomes == {"tar_failed", "tar_failed_partial", "no_directory",
             "no_executable", "write_failed", "unlink_failed", "ok"}

\* _extract_archive returned True (tar exited 0)
ExtractOk(o) == o \notin {"tar_failed", "tar_failed_partial"}

\* extract_path.exists() and extract_path.is_dir()
DirExists(o) ==
  o \in {"tar_failed_partial", "no_executable", "write_failed",
         "unlink_failed", "ok"}

\* (extract_path / "blender").exists()
ExeExists(o) == o \in {"write_failed", "unlink_failed", "ok"}

\* Verified without the test of line 282
VerifiedWithoutDirectoryCheck(o) == ExtractOk(o)

\* lines 280-285: the branch that writes metadata and deletes the archive
Verified(o) == ExtractOk(o) /\ DirExists(o)

\* _create_version_info leaves a version.json behind: both early returns
\* passed, and nothing raised while the size was computed, the record built
\* (line 587 reads build.hash) and the file written
create_version_info(o) == DirExists(o) /\ ExeExists(o) /\ o # "write_failed"

\* lines 287-296: download_path.unlink() did not raise, the version is
\* appended to completed_versions
Unlinked(o) == Verified(o) /\ o # "unlink_failed"

\* ExtractionTargets giving up the batch when one fetch failed
ExtractionTargetsAllOrNothing ==
  IF successful_downloads = batch THEN successful_downloads ELSE {}

\* line 273: the downloads the extraction loop goes through
ExtractionTargets == successful_downloads

\* return_value as the docstring puts it: True if all downloads succeeded
return_value_all(completed) ==
  IF completed = batch THEN "True" ELSE "False"

\* lines 303-312
return_value(completed) == IF completed # {} THEN "True" ELSE "False"

\* lines 272-312: unpack every successful download, then return
DmbExtract ==
  /\ dpc = "extract"
  /\ \E o \in [ExtractionTargets -> Outcomes] :
       /\ unpacked' = ExtractionTargets
       /\ tar_ok' = {v \in ExtractionTargets : ExtractOk(o[v])}
       /\ extracted' = extracted \cup
                         {v \in ExtractionTargets : DirExists(o[v])}
       /\ executable' = executable \cup
                          {v \in ExtractionTargets : ExeExists(o[v])}
       /\ sidecar' =
            (sidecar \ {v \in ExtractionTargets :
                          Verified(o[v]) /\ o[v] = "write_failed"})
              \cup {v \in ExtractionTargets :
                      Verified(o[v]) /\ create_version_info(o[v])}
       /\ archive' = archive \ {v \in ExtractionTargets : Unlinked(o[v])}
       /\ completed_versions' = {v \in ExtractionTargets : Unlinked(o[v])}
  /\ result' = return_value(completed_versions')
  /\ dpc' = "returned"
  /\ UNCHANGED <<dirs, batch, log_file_paths, logs, fpc, should_remove, versions_to_remove,
                 successful_downloads, wpc, completed_builds, uiVars,
                 screenVars, registryVars, numberVars, overlapVars>>
  /\ root_builds' = ScanDisk(dirs' \cup extracted')

\* line 188: the dictionary the two handlers clean up is never filled
temp_log_files == {}

\* lines 314-330: KeyboardInterrupt inside the try block. The handler deletes
\* the logs listed in temp_log_files and returns False; the fetch threads
\* are left running.
DmbInterrupt ==
  /\ dpc \in {"threads", "join", "check", "remove", "extract"}
  /\ logs' = [v \in Versions |->
                IF v \in temp_log_files THEN NoLog ELSE logs[v]]
  /\ result' = "False"
  /\ dpc' = "returned"
  /\ UNCHANGED <<fsVars, batch, log_file_paths, fpc, should_remove, versions_to_remove,
                 successful_downloads, unpacked, tar_ok, completed_versions,
                 wpc, completed_builds, uiVars, listVars,
                 registryVars, numberVars, overlapVars>>

-----------------------------------------------------------------------------
(* The watcher: BlenderTUI._download_with_progress_tracking *)

\* lines 1201-1217: start download_multiple_builds in its own thread
WatcherStart ==
  /\ wpc = "start"
  /\ dpc' = "preflight"
  /\ completed_builds' = {}
  /\ wpc' = "poll"
  /\ UNCHANGED <<fsVars, batch, log_file_paths, logs, fpc, should_remove, versions_to_remove,
                 successful_downloads, unpacked, tar_ok, completed_versions, result,
                 uiVars,
                 listVars, registryVars, numberVars, overlapVars>>

\* line 1221: assigned once and never set again
all_logs_checked_at_least_once == FALSE

\* the builds for which one pass of lines 1233-1280 gets a result
Polled == {v \in batch \ completed_builds :
             get_progress_and_speed_from_log(logs[v]) # None}

\* the loop left as soon as a pass got no result, the thread of
\* download_multiple_builds running or not
LoopExitsWhenQuiet == Polled = {}

\* the two exit tests of the loop, lines 1225 and 1291
LoopExits ==
  \/ ~DmbAlive /\ all_logs_checked_at_least_once
  \/ Polled = {} /\ ~DmbAlive

\* one pass of the while loop, lines 1223-1295
WatcherPoll ==
  /\ wpc = "poll"
  /\ download_progress' =
       [v \in Versions |->
          IF v \in Polled
          THEN get_progress_and_speed_from_log(logs[v]).pct
          ELSE download_progress[v]]
  /\ download_speed' =
       [v \in Versions |->
          IF v \in Polled
          THEN IF get_progress_and_speed_from_log(logs[v]).pct >= 100
               THEN "Extracting..."
               ELSE get_progress_and_speed_from_log(logs[v]).speed
          ELSE download_speed[v]]
  /\ completed_builds' = completed_builds \cup
       {v \in Polled : get_progress_and_speed_from_log(logs[v]).pct >= 100}
  /\ wpc' = IF LoopExits THEN "final" ELSE "poll"
  /\ UNCHANGED <<fsVars, batch, log_file_paths, logs, fpc, dmbVars,
                 listVars, registryVars, numberVars, overlapVars>>

\* lines 1297-1306: the final update
WatcherFinal ==
  /\ wpc = "final"
  /\ download_progress' =
       [v \in Versions |-> IF v \in batch THEN 100 ELSE download_progress[v]]
  /\ download_speed' =
       [v \in Versions |-> IF v \in batch THEN "Complete"
                           ELSE download_speed[v]]
  /\ wpc' = "grace"
  /\ UNCHANGED <<fsVars, batch, log_file_paths, logs, fpc, dmbVars, completed_builds,
                 listVars, registryVars, numberVars, overlapVars>>

\* lines 1308-1314: store a rescan of the download root, clear the maps
WatcherClear ==
  /\ wpc = "grace"
  /\ local_builds' = root_builds
  /\ download_progress' = [v \in Versions |-> NoPct]
  /\ download_speed' = [v \in Versions |-> ""]
  /\ wpc' = "cleanup"
  /\ UNCHANGED <<fsVars, batch, log_file_paths, logs, fpc, dmbVars, completed_builds,
                 catalog, builds, has_fetched, sort_column, sort_reverse,
                 terminal_width, running, combined, cursor_position,
                 selected_builds, current_page, root_builds, registryVars, numberVars, overlapVars>>

\* lines 1331-1343: the finally block deletes every scratch log
WatcherCleanup ==
  /\ wpc = "cleanup"
  /\ logs' = [v \in Versions |-> IF v \in batch THEN NoLog ELSE logs[v]]
  /\ wpc' = "done"
  /\ UNCHANGED <<fsVars, batch, log_file_paths, fpc, dmbVars, completed_builds, uiVars,
                 listVars, registryVars, numberVars, overlapVars>>

-----------------------------------------------------------------------------
(* Foreground: the build list *)

\* _get_responsive_columns: the columns of _BASE_COLUMNS that are hidden
HiddenColumns(width) ==
  (IF width < 115 THEN {3} ELSE {}) \cup
  (IF width < 100 THEN {5} ELSE {}) \cup
  (IF width < 80 THEN {6} ELSE {})

\* _get_visible_sortable_column_indices, ascending
VisibleSortable(width) == (1..7) \ HiddenColumns(width)

\* print_build_table: rescan the download root, then sort for display; an
\* exception of the sort key ends BlenderTUI.run
print_build_table ==
  /\ local_builds' = root_builds'
  /\ combined' = get_combined_build_list(local_builds', builds',
                   has_fetched', sort_column', sort_reverse')
  /\ running' = ~combined'.raised

\* display_tui: the table is printed on the builds page unless a fetch
\* returned nothing
DisplayTui ==
  IF current_page' = "builds" /\ ~(has_fetched' /\ builds' = <<>>)
  THEN print_build_table
  ELSE UNCHANGED <<local_builds, combined, running>>

\* _fetch_online_builds, fetch_builds returning
FetchOnlineBuilds ==
  /\ running
  /\ current_page = "builds"
  /\ builds' = catalog
  /\ has_fetched' = TRUE
  /\ cursor_position' = 0
  /\ UNCHANGED <<current_page, root_builds, catalog, sort_column, sort_reverse, terminal_width,
                 selected_builds>>
  /\ DisplayTui
  /\ UNCHANGED <<pipeVars, registryVars, numberVars, overlapVars>>

\* _fetch_online_builds when a failing fetch_builds returns an empty list
FetchOnlineBuildsFailsEmpty ==
  /\ running
  /\ current_page = "builds"
  /\ builds' = <<>>
  /\ has_fetched' = TRUE
  /\ cursor_position' = 0
  /\ UNCHANGED <<current_page, root_builds, catalog, sort_column, sort_reverse,
                 terminal_width, selected_builds>>
  /\ DisplayTui
  /\ UNCHANGED <<pipeVars, registryVars, numberVars, overlapVars>>

\* _fetch_online_builds, fetch_builds raising
FetchOnlineBuildsFails ==
  /\ running
  /\ current_page = "builds"
  /\ UNCHANGED <<current_page, root_builds, catalog, builds, has_fetched, sort_column, sort_reverse,
                 terminal_width, cursor_position, selected_builds>>
  /\ DisplayTui
  /\ UNCHANGED <<pipeVars, registryVars, numberVars, overlapVars>>

\* _move_column_left
MoveColumnLeft ==
  /\ running
  /\ current_page = "builds"
  /\ sort_column' =
       IF sort_column \in VisibleSortable(terminal_width)
       THEN IF \E c \in VisibleSortable(terminal_width) : c < sort_column
            THEN CHOOSE c \in VisibleSortable(terminal_width) :
                   /\ c < sort_column
                   /\ \A e \in VisibleSortable(terminal_width) :
                        e < sort_column => e <= c
            ELSE sort_column
       ELSE CHOOSE c \in VisibleSortable(terminal_width) :
              \A e \in VisibleSortable(terminal_width) : c <= e
  /\ UNCHANGED <<current_page, root_builds, catalog, builds, has_fetched, sort_reverse, terminal_width,
                 cursor_position, selected_builds>>
  /\ DisplayTui
  /\ UNCHANGED <<pipeVars, registryVars, numberVars, overlapVars>>

\* _move_column_right
MoveColumnRight ==
  /\ running
  /\ current_page = "builds"
  /\ sort_column' =
       IF sort_column \in VisibleSortable(terminal_width)
       THEN IF \E c \in VisibleSortable(terminal_width) : c > sort_column
            THEN CHOOSE c \in VisibleSortable(terminal_width) :
                   /\ c > sort_column
                   /\ \A e \in VisibleSortable(terminal_width) :
                        e > sort_column => e >= c
            ELSE sort_column
       ELSE CHOOSE c \in VisibleSortable(terminal_width) :
              \A e \in VisibleSortable(terminal_width) : c <= e
  /\ UNCHANGED <<current_page, root_builds, catalog, builds, has_fetched, sort_reverse, terminal_width,
                 cursor_position, selected_builds>>
  /\ DisplayTui
  /\ UNCHANGED <<pipeVars, registryVars, numberVars, overlapVars>>

\* _toggle_sort_reverse
ToggleSortReverse ==
  /\ running
  /\ current_page = "builds"
  /\ sort_reverse' = ~sort_reverse
  /\ UNCHANGED <<current_page, root_builds, catalog, builds, has_fetched, sort_column, terminal_width,
                 cursor_position, selected_builds>>
  /\ DisplayTui
  /\ UNCHANGED <<pipeVars, registryVars, numberVars, overlapVars>>

\* _handle_resize, and the refresh the main loop does for it
HandleResize ==
  /\ running
  /\ \E w \in Widths : terminal_width' = w
  /\ UNCHANGED <<current_page, root_builds, catalog, builds, has_fetched, sort_column, sort_reverse,
                 cursor_position, selected_builds>>
  /\ DisplayTui
  /\ UNCHANGED <<pipeVars, registryVars, numberVars, overlapVars>>

-----------------------------------------------------------------------------
(* Specifications *)

Fetch == \E v \in Versions :
           FetchOpen(v) \/ FetchProgress(v) \/ FetchExit(v)

Dmb == DmbPreflight \/ DmbStartThreads \/ DmbJoin \/ DmbCheck \/ DmbRemove
         \/ DmbExtract

Watcher == WatcherStart \/ WatcherPoll \/ WatcherFinal \/ WatcherClear
             \/ WatcherCleanup

Next == HandleDownload \/ Fetch \/ Dmb \/ Watcher

Spec == Init /\ [][Next]_vars

\* the build list, for every local map and every catalog
ListInit ==
  /\ PipeIdle({}, {})
  /\ RegistryIdle
  /\ \E l \in LocalMaps, c \in RemoteLists, w \in Widths : ListStart(l, c, w)

ListNext == FetchOnlineBuilds \/ FetchOnlineBuildsFails \/ MoveColumnLeft
              \/ MoveColumnRight \/ ToggleSortReverse \/ HandleResize

ListSpec == ListInit /\ [][ListNext]_vars

\* Threads are scheduled and a started wget exits.
FairSpec ==
  /\ Spec
  /\ WF_vars(Dmb)
  /\ WF_vars(Watcher)
  /\ \A v \in Versions : WF_vars(FetchOpen(v)) /\ WF_vars(FetchExit(v))

\* the pipeline when download_multiple_builds can be interrupted
InterruptNext == Next \/ DmbInterrupt

InterruptSpec == Init /\ [][InterruptNext]_vars

-----------------------------------------------------------------------------
(* Properties *)

\* the versions of a list of (type, version) pairs or of records
PairVersions(list) == {list[i][2] : i \in 1..Len(list)}
RecordVersions(q) == {q[i].version : i \in 1..Len(q)}

\* C1: the list _get_combined_build_list returned holds exactly one record
\* per distinct version of the local map or, once a fetch has succeeded, of
\* the remote list, and no record of any other version.
C1_OneRecordPerVersion ==
  running =>
    /\ PairVersions(combined.list) =
         RecordVersions(local_builds) \cup
           (IF has_fetched THEN RecordVersions(builds) ELSE {})
    /\ \A i, j \in 1..Len(combined.list) :
         combined.list[i][2] = combined.list[j][2] => i = j

\* a fetched list holding a version twice that the non-empty local map lacks
C1_Witness ==
  /\ running /\ has_fetched /\ local_builds # <<>>
  /\ \E i, j \in 1..Len(builds) :
       /\ i # j
       /\ builds[i].version = builds[j].version
       /\ builds[i].version \notin RecordVersions(local_builds)
  /\ Len(combined.list) = Len(local_builds) + 1

\* the batch went past the confirmation and download_multiple_builds is back
BatchRan == dpc = "returned" /\ \A v \in batch : fpc[v] = "done"

\* C2: the pre-existing directories of a version are deleted only if the
\* user approved removal and that same version's fetch was successful.
C2_RemovalOnlyAfterOwnSuccess ==
  [][\A v \in Versions :
       (v \in dirs /\ v \notin dirs') =>
         (should_remove /\ v \in successful_downloads)]_vars

C4_OnlyFailedFetchLacksSidecar ==
  BatchRan => \A v \in batch : v \in successful_downloads => v \in sidecar

\* C4, amended: every task whose fetch succeeded is unpacked whatever its
\* siblings did; a sidecar is written only for a task whose own fetch
\* succeeded, whose own extraction returned success and whose verified
\* directory holds the blender executable, so a task whose fetch failed has
\* none.
C4_SiblingsIsolated ==
  BatchRan =>
    /\ unpacked = successful_downloads
    /\ \A v \in batch :
         v \in sidecar =>
           /\ v \in successful_downloads
           /\ v \in tar_ok /\ v \in extracted /\ v \in executable

\* one fetch failed; its sibling was unpacked, verified and counted completed
C4_Witness ==
  /\ BatchRan
  /\ \E v, w \in batch :
       /\ v \notin successful_downloads /\ v \notin unpacked
       /\ w \in successful_downloads /\ w \in completed_versions

\* C5: once download_multiple_builds has returned and the tracking of the
\* batch is over, whether by success, failure or interruption, no scratch
\* log of the batch is on disk.
C5_NoLogAfterBatch ==
  (dpc = "returned" /\ wpc = "done") => \A v \in batch : ~logs[v].exists

\* C6: once download_multiple_builds has returned, the watcher eventually
\* stops polling and the progress entries of the batch are removed.
C6_WatcherEnds ==
  (dpc = "returned") ~>
     (wpc = "done" /\ \A v \in Versions : download_progress[v] = NoPct)

\* the status the progress maps publish for a version
Status(progress, speed) ==
  IF progress = NoPct THEN "Queued"
  ELSE IF speed = "Extracting..." THEN "Extracting"
  ELSE IF speed = "Complete" THEN "Completed"
  ELSE IF speed = "Error" THEN "Failed"
  ELSE "Downloading"

\* a step forward along Queued -> Downloading -> Extracting -> Completed or
\* Queued -> Downloading -> Failed, or the removal after a terminal state
Forward(a, b) ==
  \/ a = "Queued" /\ b \in {"Downloading", "Extracting", "Completed", "Failed"}
  \/ a = "Downloading" /\ b \in {"Extracting", "Completed", "Failed"}
  \/ a = "Extracting" /\ b = "Completed"
  \/ a \in {"Completed", "Failed"} /\ b = "Queued"

\* the fetch of v has exited and was not a success
FetchFailed(v) == fpc[v] = "done" /\ ~check_download_success(logs[v])

\* C7: the published status of a task only moves forward, and a task whose
\* fetch failed is not published as Extracting or Completed afterwards.
C7_StatusOnlyForward ==
  [][\A v \in Versions :
       LET a == Status(download_progress[v], download_speed[v])
           b == Status(download_progress'[v], download_speed'[v])
       IN  a # b =>
             /\ Forward(a, b)
             /\ FetchFailed(v) => b \notin {"Extracting", "Completed"}]_vars

\* C8: the percentages written to download_progress[version] never decrease
\* while the entry exists.
C8_ProgressMonotonic ==
  [][\A v \in Versions :
       (download_progress[v] # NoPct /\ download_progress'[v] # NoPct) =>
         download_progress'[v] >= download_progress[v]]_vars

C10_MetadataOnlyAfterVerification ==
  \A v \in Versions :
    /\ v \in sidecar => v \in unpacked
    /\ v \in unpacked =>
         /\ (v \in sidecar \/ v \notin archive) =>
              (v \in tar_ok /\ v \in extracted)
         /\ (v \notin tar_ok \/ v \notin extracted) =>
              (v \notin sidecar /\ v \in archive)

\* tar succeeded for a task but its directory is missing, and a failed tar
\* left a partial directory for another
C10_Witness ==
  /\ BatchRan
  /\ \E v \in unpacked : v \in tar_ok /\ v \notin extracted /\ v \in archive
  /\ \E v \in unpacked : v \notin tar_ok /\ v \in extracted /\ v \in archive

\* C11: when the user declines the pre-flight confirmation the call returns
\* False, starts no fetch and leaves the download root (directories and
\* files) as it was before the call.
C11_DeclineLeavesDiskUntouched ==
  [][(dpc = "preflight" /\ dpc' = "returned") =>
       /\ result' = "False"
       /\ fpc' = fpc
       /\ fsVars' = fsVars]_vars

\* the removal of the old directories of v was tried and failed
RemovalFailed(v) ==
  /\ dpc \in {"extract", "returned"}
  /\ v \in RemovalTargets
  /\ v \in dirs

\* C12: a version whose old directory could not be removed after its fetch
\* succeeded is not extracted, gets no sidecar and is not counted as
\* completed.
C12_RemovalFailureAbortsVersion ==
  dpc = "returned" =>
    \A v \in batch :
      (RemovalFailed(v) /\ v \in successful_downloads) =>
        (v \notin unpacked /\ v \notin sidecar /\ v \notin completed_versions)

-----------------------------------------------------------------------------
(* Update detection *)

\* LocalBuildInfo.time: the build-time token of the directory, "" when the
\* scan found none
local_time(info) == IF info.time = 0 THEN <<>> ELSE <<info.time>>

\* BlenderBuild.build_time: strftime of file_mtime, never empty
build_time(build) == <<build.file_mtime>>

\* the test of tui.py lines 279-283 and 1363-1367
TimesDiffer(info, build) ==
  /\ local_time(info) # <<>>
  /\ build_time(build) # <<>>
  /\ local_time(info) # build_time(build)

\* the local build of version v (v is a key of the local map)
LocalOf(local, v) ==
  local[CHOOSE i \in 1..Len(local) : local[i].version = v]

\* _has_update_available: the first online build of the version decides
has_update_available(local, remote, fetched, v) ==
  IF ~fetched \/ v \notin {local[i].version : i \in 1..Len(local)}
  THEN FALSE
  ELSE IF \A j \in 1..Len(remote) : remote[j].version # v THEN FALSE
  ELSE LET first == CHOOSE j \in 1..Len(remote) :
                      /\ remote[j].version = v
                      /\ \A k \in 1..(j - 1) : remote[k].version # v
       IN  TimesDiffer(LocalOf(local, v), remote[first])

\* print_build_table, lines 274-295: every online build of the version
\* overwrites the status, so the last one decides
RECURSIVE table_status(_, _, _)
table_status(info, remote, status) ==
  IF remote = <<>> THEN status
  ELSE table_status(info, Tail(remote),
         IF Head(remote).version # info.version THEN status
         ELSE IF TimesDiffer(info, Head(remote)) THEN "Update"
         ELSE "Local")

\* the status cell of the row of local version v
table_update(local, remote, fetched, v) ==
  (IF fetched THEN table_status(LocalOf(local, v), remote, "Local")
   ELSE "Local") = "Update"

\* C13: for a local version v, update-available is reported exactly when a
\* fetch has succeeded and a remote build of version v has a non-empty
\* build-time token different from the non-empty local one; the table and
\* _has_update_available agree.
C13_UpdateAvailable ==
  running =>
    \A i \in 1..Len(local_builds) :
      LET info == local_builds[i]
          expected ==
            /\ has_fetched
            /\ \E j \in 1..Len(builds) :
                 builds[j].version = info.version /\ TimesDiffer(info, builds[j])
      IN  /\ has_update_available(local_builds, builds, has_fetched,
                                  info.version) = expected
          /\ table_update(local_builds, builds, has_fetched,
                          info.version) = expected

\* C14: a version present in the local map has the one record of origin
\* local, also when the fetched list holds it; a record of origin online
\* is of a version absent from the local map.
C14_LocalWins ==
  running =>
    \A i \in 1..Len(combined.list) :
      combined.list[i][1] = "local" <=>
        combined.list[i][2] \in RecordVersions(local_builds)

\* a version both local and fetched, and a fetched version that is not local
C14_Witness ==
  /\ running /\ has_fetched
  /\ RecordVersions(local_builds) \cap RecordVersions(builds) # {}
  /\ RecordVersions(builds) \ RecordVersions(local_builds) # {}

\* what _get_combined_build_list returns when called in this state
CurrentList ==
  get_combined_build_list(local_builds, builds, has_fetched, sort_column,
                          sort_reverse)

\* a comes before b as versions: the first differing segment is smaller as
\* a number, or a is a proper prefix of b
VersionLess(a, b) ==
  LET sa == SplitDots(a)
      sb == SplitDots(b)
      n == IF Len(sa) < Len(sb) THEN Len(sa) ELSE Len(sb)
      Same(k) == \A m \in 1..k : ParseInt(sa[m]) = ParseInt(sb[m])
  IN  \/ \E k \in 1..n : Same(k - 1) /\ ParseInt(sa[k]) < ParseInt(sb[k])
      \/ Same(n) /\ Len(sa) < Len(sb)

\* C15: sorted by the version column, the list is in numeric order of the
\* version segments when ascending (2.2 < 2.9 < 2.10) and in the reverse
\* order when descending.
C15_NumericVersionOrder ==
  (running /\ sort_column = 1) =>
    \A i, j \in 1..Len(CurrentList.list) :
      i < j =>
        IF sort_reverse
        THEN VersionLess(CurrentList.list[j][2], CurrentList.list[i][2])
        ELSE VersionLess(CurrentList.list[i][2], CurrentList.list[j][2])

\* ascending by version with 2.2, 2.9 and 2.10 in the list
C15_Witness ==
  /\ running /\ sort_column = 1 /\ ~sort_reverse
  /\ CurrentList.list = << <<"online", V_2_2>>, <<"local", V_2_9>>,
                        <<"online", V_2_10>> >>

\* C18: when the terminal width hides the column the list is sorted on, the
\* list shown is the one sorted by a visible sortable column, not by the
\* hidden one.
C18_HiddenSortColumnFallsBack ==
  (running /\ sort_column \in HiddenColumns(terminal_width)) =>
    \E c \in VisibleSortable(terminal_width) :
      CurrentList.list =
        get_combined_build_list(local_builds, builds, has_fetched, c,
                                sort_reverse).list

\* C20: interrupted while fetch threads are running, the call does not
\* return True, deletes the scratch logs of the batch and leaves the fetch
\* threads running.
C20_InterruptCleansLogs ==
  [][(DmbInterrupt /\ \E v \in batch : fpc[v] \in {"ready", "running"}) =>
       /\ result' # "True"
       /\ \A v \in batch : ~logs'[v].exists
       /\ fpc' = fpc]_vars

-----------------------------------------------------------------------------
(* Foreground: cursor, selection, deletion and settings *)

\* the record a scan returns for a build directory of version v
ScanRecord(v) == CHOOSE r \in LocalPool : r.version = v

\* the download roots the settings page can point at
CursorRoots ==
  { <<>>, <<ScanRecord(V_2_9)>>, <<ScanRecord(V_2_9), ScanRecord(V_2_10)>> }

\* what the build server lists, and the cutoffs the settings page is given
ServerBuilds ==
  << CHOOSE b \in RemotePool : b.version = V_2_9 /\ b.file_mtime = 8,
     CHOOSE b \in RemotePool : b.version = V_2_10,
     CHOOSE b \in RemotePool : b.version = V_2_2 >>
Cutoffs == {V_2_2, V_2_9, V_2_10}

\* version_meets_minimum: the version tuple is >= the cutoff tuple
version_meets_minimum(version, min_version) ==
  ~VersionLess(version, min_version)

\* fetch_builds under a cutoff: the server's builds that meet it
CatalogFor(cutoff) ==
  LET Meets(b) == version_meets_minimum(b.version, cutoff)
  IN  SelectSeq(ServerBuilds, Meets)

\* max_index of _move_cursor_down and _delete_selected_build
MaxIndex(list) == IF Len(list) > 0 THEN Len(list) - 1 ELSE 0

\* _move_cursor_up
MoveCursorUp ==
  /\ running
  /\ current_page = "builds"
  /\ cursor_position' =
       IF cursor_position - 1 > 0 THEN cursor_position - 1 ELSE 0
  /\ UNCHANGED <<current_page, root_builds, catalog, builds, has_fetched,
                 sort_column, sort_reverse, terminal_width, selected_builds>>
  /\ DisplayTui
  /\ UNCHANGED <<pipeVars, registryVars, numberVars, overlapVars>>

\* _move_cursor_down; an exception of the sort key leaves the cursor alone
MoveCursorDown ==
  /\ running
  /\ current_page = "builds"
  /\ cursor_position' =
       IF CurrentList.raised THEN cursor_position
       ELSE IF cursor_position + 1 < MaxIndex(CurrentList.list)
            THEN cursor_position + 1
            ELSE MaxIndex(CurrentList.list)
  /\ UNCHANGED <<current_page, root_builds, catalog, builds, has_fetched,
                 sort_column, sort_reverse, terminal_width, selected_builds>>
  /\ DisplayTui
  /\ UNCHANGED <<pipeVars, registryVars, numberVars, overlapVars>>

\* the cursor is on a row of the list
CursorOnRow(list) == cursor_position >= 0 /\ cursor_position < Len(list)

\* lines 1051-1054 with every other member dropped
ToggledAlone(selected, version) ==
  IF version \in selected THEN {} ELSE {version}

\* lines 1051-1054: remove the version when selected, add it otherwise
Toggled(selected, version) ==
  IF version \in selected THEN selected \ {version}
  ELSE selected \cup {version}

\* _toggle_selection
ToggleSelection ==
  /\ running
  /\ current_page = "builds"
  /\ selected_builds' =
       IF ~CurrentList.raised /\ CursorOnRow(CurrentList.list)
       THEN Toggled(selected_builds,
                    CurrentList.list[cursor_position + 1][2])
       ELSE selected_builds
  /\ UNCHANGED <<current_page, root_builds, catalog, builds, has_fetched,
                 sort_column, sort_reverse, terminal_width, cursor_position>>
  /\ DisplayTui
  /\ UNCHANGED <<pipeVars, registryVars, numberVars, overlapVars>>

\* a is a prefix of b
IsPrefix(a, b) == Len(a) <= Len(b) /\ SubSeq(b, 1, Len(a)) = a

\* delete_local_build for every version of S: what is left of the root when
\* each directory whose name starts with blender-<version> is removed
Without(root, S) ==
  LET Kept(r) == \A v \in S : ~IsPrefix(v, r.version)
  IN  SelectSeq(root, Kept)

\* versions_to_delete of _delete_selected_build
versions_to_delete ==
  IF local_builds = <<>> \/ CurrentList.raised THEN {}
  ELSE IF selected_builds # {}
       THEN selected_builds \cap RecordVersions(local_builds)
       ELSE IF CursorOnRow(CurrentList.list)
            THEN {CurrentList.list[cursor_position + 1][2]}
                   \cap RecordVersions(local_builds)
            ELSE {}

\* the table after a rescan stored by the handler itself
RescanAndDisplay ==
  /\ local_builds' = root_builds'
  /\ IF current_page' = "builds" /\ ~(has_fetched' /\ builds' = <<>>)
     THEN /\ combined' = get_combined_build_list(local_builds', builds',
                           has_fetched', sort_column', sort_reverse')
          /\ running' = ~combined'.raised
     ELSE UNCHANGED <<combined, running>>

\* _delete_selected_build answered y: each deletion may fail; the selection
\* is cleared, the root rescanned and the cursor clamped
DeleteConfirmed ==
  /\ running
  /\ current_page = "builds"
  /\ versions_to_delete # {}
  /\ \E deleted \in SUBSET versions_to_delete :
       root_builds' = Without(root_builds, deleted)
  /\ selected_builds' = {}
  /\ cursor_position' =
       LET after == get_combined_build_list(root_builds', builds,
                      has_fetched, sort_column, sort_reverse)
       IN  IF after.raised THEN cursor_position
           ELSE IF cursor_position < MaxIndex(after.list)
                THEN cursor_position ELSE MaxIndex(after.list)
  /\ UNCHANGED <<current_page, catalog, builds, has_fetched, sort_column,
                 sort_reverse, terminal_width>>
  /\ RescanAndDisplay
  /\ UNCHANGED <<pipeVars, registryVars, numberVars, overlapVars>>

\* _delete_selected_build with nothing to delete, or answered n
DeleteDeclined ==
  /\ running
  /\ current_page = "builds"
  /\ UNCHANGED <<current_page, root_builds, catalog, builds, has_fetched,
                 sort_column, sort_reverse, terminal_width, cursor_position,
                 selected_builds>>
  /\ DisplayTui
  /\ UNCHANGED <<pipeVars, registryVars, numberVars, overlapVars>>

\* _switch_to_settings
SwitchToSettings ==
  /\ running
  /\ current_page = "builds"
  /\ current_page' = "settings"
  /\ UNCHANGED <<root_builds, catalog, builds, has_fetched, sort_column,
                 sort_reverse, terminal_width, cursor_position,
                 selected_builds>>
  /\ DisplayTui
  /\ UNCHANGED <<pipeVars, registryVars, numberVars, overlapVars>>

\* _switch_to_builds_page
SwitchToBuildsPage ==
  /\ running
  /\ current_page = "settings"
  /\ current_page' = "builds"
  /\ UNCHANGED <<root_builds, catalog, builds, has_fetched, sort_column,
                 sort_reverse, terminal_width, cursor_position,
                 selected_builds>>
  /\ DisplayTui
  /\ UNCHANGED <<pipeVars, registryVars, numberVars, overlapVars>>

\* _edit_current_setting on the download directory: DOWNLOAD_PATH points at
\* another root
EditDownloadPath ==
  /\ running
  /\ current_page = "settings"
  /\ \E r \in CursorRoots : root_builds' = r
  /\ UNCHANGED <<current_page, catalog, builds, has_fetched, sort_column,
                 sort_reverse, terminal_width, cursor_position,
                 selected_builds>>
  /\ DisplayTui
  /\ UNCHANGED <<pipeVars, registryVars, numberVars, overlapVars>>

\* _edit_current_setting on the version cutoff: later fetches use it
EditVersionCutoff ==
  /\ running
  /\ current_page = "settings"
  /\ \E c \in Cutoffs : catalog' = CatalogFor(c)
  /\ UNCHANGED <<current_page, root_builds, builds, has_fetched, sort_column,
                 sort_reverse, terminal_width, cursor_position,
                 selected_builds>>
  /\ DisplayTui
  /\ UNCHANGED <<pipeVars, registryVars, numberVars, overlapVars>>

\* builds_to_download of _handle_download, as versions
builds_to_download ==
  IF ~has_fetched \/ builds = <<>> \/ CurrentList.raised THEN {}
  ELSE LET chosen == IF selected_builds # {} THEN selected_builds
                     ELSE IF CursorOnRow(CurrentList.list)
                          THEN {CurrentList.list[cursor_position + 1][2]}
                          ELSE {}
       IN  {v \in chosen \cap RecordVersions(builds) :
              \/ v \notin RecordVersions(local_builds)
              \/ has_update_available(local_builds, builds, has_fetched, v)}

\* the root with the build directories of the versions of S added
RECURSIVE WithScanned(_, _)
WithScanned(root, S) ==
  IF S = {} THEN root
  ELSE LET v == CHOOSE x \in S : TRUE
       IN  WithScanned(IF v \in RecordVersions(root) THEN root
                       ELSE Append(root, ScanRecord(v)), S \ {v})

\* a download batch from _handle_download to the end of its tracking
\* thread: the builds that completed are in the root, the thread stores the
\* rescan and the main loop redraws
DownloadBatchCompletes ==
  /\ running
  /\ current_page = "builds"
  /\ builds_to_download # {}
  /\ \E done \in SUBSET {v \in builds_to_download :
                           v \in RecordVersions(ServerBuilds)
                           /\ \E r \in LocalPool : r.version = v} :
       root_builds' = WithScanned(root_builds, done)
  /\ UNCHANGED <<current_page, catalog, builds, has_fetched, sort_column,
                 sort_reverse, terminal_width, cursor_position,
                 selected_builds>>
  /\ RescanAndDisplay
  /\ UNCHANGED <<pipeVars, registryVars, numberVars, overlapVars>>

\* the builds page with cursor and selection, at full width
CursorInit ==
  /\ PipeIdle({}, {})
  /\ RegistryIdle
  /\ \E l \in CursorRoots, c \in Cutoffs : ListStart(l, CatalogFor(c), 120)

CursorNext ==
  \/ MoveCursorUp \/ MoveCursorDown \/ ToggleSelection
  \/ MoveColumnLeft \/ MoveColumnRight \/ ToggleSortReverse
  \/ FetchOnlineBuilds \/ FetchOnlineBuildsFails
  \/ DeleteConfirmed \/ DeleteDeclined
  \/ SwitchToSettings \/ SwitchToBuildsPage
  \/ EditDownloadPath \/ EditVersionCutoff
  \/ DownloadBatchCompletes

CursorSpec == CursorInit /\ [][CursorNext]_vars

\* C16: after any sequence of UI operations the cursor lies in
\* [0, max(0, length - 1)], length being the length of the current combined
\* list.
C16_CursorInRange ==
  running =>
    /\ cursor_position >= 0
    /\ cursor_position <= MaxIndex(CurrentList.list)

\* C17: a selection toggle flips exactly the version at the cursor and
\* keeps every other member; changing the sort column, reversing the sort
\* direction or moving the cursor leaves the selected set unchanged.
C17_SelectionSurvivesResort ==
  [][/\ (ToggleSelection /\ ~CurrentList.raised
           /\ CursorOnRow(CurrentList.list)) =>
          LET at == CurrentList.list[cursor_position + 1][2]
          IN  /\ (at \in selected_builds') # (at \in selected_builds)
              /\ selected_builds' \ {at} = selected_builds \ {at}
     /\ (MoveColumnLeft \/ MoveColumnRight \/ ToggleSortReverse
           \/ MoveCursorUp \/ MoveCursorDown) =>
          selected_builds' = selected_builds]_vars

\* two versions are selected, one of them below the first row, under a sort
\* other than the initial one
C17_Witness ==
  /\ running
  /\ Cardinality(selected_builds) = 2
  /\ cursor_position > 0
  /\ CursorOnRow(CurrentList.list)
  /\ CurrentList.list[cursor_position + 1][2] \in selected_builds
  /\ (sort_column # DEFAULT_SORT_COLUMN \/ ~sort_reverse)

-----------------------------------------------------------------------------
(* The foreground loop beside a download batch *)

\* BlenderTUI.run, lines 800-808: a requested refresh redraws the page
MainLoopRefresh ==
  /\ running
  /\ UNCHANGED <<current_page, root_builds, catalog, builds, has_fetched,
                 sort_column, sort_reverse, terminal_width, cursor_position,
                 selected_builds>>
  /\ DisplayTui
  /\ UNCHANGED <<pipeVars, registryVars, numberVars, overlapVars>>

\* what the foreground loop does while a batch is running
Foreground ==
  MainLoopRefresh \/ MoveCursorUp \/ MoveCursorDown \/ ToggleSortReverse

SharedNext == Next \/ Foreground

SharedSpec == Init /\ [][SharedNext]_vars

\* C19: the progress and speed maps are changed only by the watcher; cursor,
\* selection and sort state only by the foreground loop; and the local
\* builds, which the foreground loop stores at every redraw, are changed by
\* no other unit.
C19_SoleWriters ==
  [][/\ (download_progress' # download_progress
           \/ download_speed' # download_speed) => Watcher
     /\ (<<cursor_position, selected_builds, sort_column, sort_reverse>>'
           # <<cursor_position, selected_builds, sort_column, sort_reverse>>)
          => Foreground
     /\ local_builds' # local_builds => Foreground]_vars

-----------------------------------------------------------------------------
(* The build registry: utils/local_builds.py *)

\* str.split(c): the segments of s between the occurrences of character c
RECURSIVE Split(_, _)
Split(s, c) ==
  IF \A i \in 1..Len(s) : s[i] # c THEN <<s>>
  ELSE LET k == CHOOSE i \in 1..Len(s) :
                   s[i] = c /\ \A j \in 1..(i - 1) : s[j] # c
       IN  <<SubSeq(s, 1, k - 1)>> \o Split(SubSeq(s, k + 1, Len(s)), c)

\* c in s, for a single character
HasChar(s, c) == \E i \in 1..Len(s) : s[i] = c

\* the characters '-', '+', '_' and '.'
Dash == 45
Plus == 43
Underscore == 95
Dot == 46

\* Python None, and the empty string: both are false in a condition
NoValue == <<>>

S_blender == <<98, 108, 101, 110, 100, 101, 114, 45>>   \* "blender-"
V_4_1 ==     <<52, 46, 49>>   \* "4.1"
V_4_10 ==    <<52, 46, 49, 48>>   \* "4.10"
V_3_0 ==     <<51, 46, 48>>   \* "3.0"
T_2024 ==    <<50, 48, 50, 52, 48, 49, 49, 53, 95, 49, 50, 51, 48>>   \* "20240115_1230"
T_9_30 ==    <<57, 95, 51, 48>>   \* "9_30"
T_2023 ==    <<50, 48, 50, 51, 48, 49, 48, 49, 95, 48, 48, 48, 48>>   \* "20230101_0000"

\* names of entries of the download root
\* "blender-4.1-stable_20240115_1230"
D_stable_time ==
  <<98, 108, 101, 110, 100, 101, 114, 45, 52, 46, 49, 45, 115, 116, 97, 98,
    108, 101, 95, 50, 48, 50, 52, 48, 49, 49, 53, 95, 49, 50, 51, 48>>
\* "blender-4.1+abcdef.hash-linux.x86_64"
D_hash ==
  <<98, 108, 101, 110, 100, 101, 114, 45, 52, 46, 49, 43, 97, 98, 99, 100,
    101, 102, 46, 104, 97, 115, 104, 45, 108, 105, 110, 117, 120, 46, 120,
    56, 54, 95, 54, 52>>
\* "blender-4.10-x"
D_4_10 ==
  <<98, 108, 101, 110, 100, 101, 114, 45, 52, 46, 49, 48, 45, 120>>
\* "blender-4.1-a_9_30"
D_late ==
  <<98, 108, 101, 110, 100, 101, 114, 45, 52, 46, 49, 45, 97, 95, 57, 95,
    51, 48>>
\* "blender-2.9-b_c_12"
D_word ==
  <<98, 108, 101, 110, 100, 101, 114, 45, 50, 46, 57, 45, 98, 95, 99, 95,
    49, 50>>
\* "blender-2.9-x"
D_plain ==
  <<98, 108, 101, 110, 100, 101, 114, 45, 50, 46, 57, 45, 120>>
\* "blender-4.1-x.tar.xz"
D_archive ==
  <<98, 108, 101, 110, 100, 101, 114, 45, 52, 46, 49, 45, 120, 46, 116, 97,
    114, 46, 120, 122>>

\* lines 86-96: the version is the second '-' component, cut at the first '+'
name_version(dir_name) == Head(Split(Split(dir_name, Dash)[2], Plus))

\* name_time without the isdigit test of line 104
name_time_unchecked(dir_name) ==
  IF HasChar(dir_name, Underscore)
  THEN LET segs == Split(dir_name, Underscore)
           n == Len(segs)
       IN  segs[n - 1] \o <<Underscore>> \o segs[n]
  ELSE NoValue

\* lines 98-109: the last two '_' segments when the first of them is numeric
name_time(dir_name) ==
  IF HasChar(dir_name, Underscore)
  THEN LET segs == Split(dir_name, Underscore)
           n == Len(segs)
       IN  IF IsDigits(segs[n - 1])
           THEN segs[n - 1] \o <<Underscore>> \o segs[n]
           ELSE NoValue
  ELSE NoValue

\* lines 122-134: of the first '+' part that holds a '.', what precedes the
\* '.', and of that the last '-' component
name_hash(dir_name) ==
  IF HasChar(dir_name, Plus)
  THEN LET parts == Split(dir_name, Plus)
       IN  IF \E i \in 1..Len(parts) : HasChar(parts[i], Dot)
           THEN LET k == CHOOSE i \in 1..Len(parts) :
                           /\ HasChar(parts[i], Dot)
                           /\ \A j \in 1..(i - 1) : ~HasChar(parts[j], Dot)
                    cand == Split(Head(Split(parts[k], Dot)), Dash)
                IN  cand[Len(cand)]
           ELSE NoValue
  ELSE NoValue

\* lines 82-141: the LocalBuildInfo made from the directory name
info_from_name(dir_name) ==
  [version |-> name_version(dir_name), time |-> name_time(dir_name),
   branch |-> NoValue, risk_id |-> NoValue, hash |-> name_hash(dir_name)]

\* What version.json of a directory may be:
\*   absent      no such file
\*   unreadable  open raises an OSError
\*   corrupt     json.load raises JSONDecodeError
\*   undecodable the bytes are no UTF-8, read raises UnicodeDecodeError
\*   array       valid JSON that is no object, .get raises AttributeError
\*   object      a JSON object; mtime_ok tells whether file_mtime is a
\*               number datetime.fromtimestamp accepts
Sidecar(kind, version, token, branch, risk_id, hash, mtime_ok) ==
  [kind |-> kind, version |-> version, build_time |-> token,
   branch |-> branch, risk_id |-> risk_id, hash |-> hash,
   mtime_ok |-> mtime_ok]

NoSidecar == Sidecar("absent", NoValue, NoValue, NoValue, NoValue, NoValue,
                     TRUE)
BadSidecar(kind) == Sidecar(kind, NoValue, NoValue, NoValue, NoValue,
                            NoValue, TRUE)

\* _extract_build_info_from_directory returned None
NoInfo == [version |-> NoValue, time |-> NoValue, branch |-> NoValue,
           risk_id |-> NoValue, hash |-> NoValue]

\* info_from_sidecar with the keys branch and risk_id exchanged
info_from_sidecar_exchanged(json) ==
  [version |-> json.version, time |-> json.build_time,
   branch |-> json.risk_id, risk_id |-> json.branch, hash |-> json.hash]

\* lines 53-80 reading the LocalBuildInfo out of the JSON object; the field
\* time comes from the key build_time
info_from_sidecar(json) ==
  [version |-> json.version, time |-> json.build_time,
   branch |-> json.branch, risk_id |-> json.risk_id, hash |-> json.hash]

\* _extract_build_info_from_directory: the info, or the exception that
\* leaves the function.  Lines 78-80 catch JSONDecodeError, IOError and
\* KeyError only.
extract_build_info_from_directory(entry) ==
  LET json == entry.sidecar
  IN  IF json.kind \in {"undecodable", "array"}
      THEN [raised |-> TRUE, info |-> NoInfo]
      ELSE IF json.kind = "object" /\ json.version # NoValue
      THEN IF json.mtime_ok
           THEN [raised |-> FALSE, info |-> info_from_sidecar(json)]
           ELSE [raised |-> TRUE, info |-> NoInfo]
      ELSE [raised |-> FALSE, info |-> info_from_name(entry.name)]

\* the version is a key of the dict
Known(local, version) == \E i \in 1..Len(local) : local[i].version = version

\* Keep without the test that the stored info has a time (line 33)
KeepTimed(local, info) ==
  IF info.version = NoValue THEN local
  ELSE IF ~Known(local, info.version) THEN Append(local, info)
  ELSE LET k == CHOOSE i \in 1..Len(local) : local[i].version = info.version
       IN  IF info.time # NoValue /\ SeqLess(local[k].time, info.time)
           THEN [local EXCEPT ![k] = info]
           ELSE local

\* lines 28-37: store the info under its version unless the version is
\* known; a known one is replaced when both have a time and the new time is
\* greater as a string
Keep(local, info) ==
  IF info.version = NoValue THEN local
  ELSE IF ~Known(local, info.version) THEN Append(local, info)
  ELSE LET k == CHOOSE i \in 1..Len(local) : local[i].version = info.version
       IN  IF /\ info.time # NoValue
              /\ local[k].time # NoValue
              /\ SeqLess(local[k].time, info.time)
           THEN [local EXCEPT ![k] = info]
           ELSE local

\* get_local_builds over the entries in the order glob yields them: the
\* dict in insertion order, or the exception of a directory
RECURSIVE get_local_builds(_)
get_local_builds(order) ==
  IF order = <<>> THEN [raised |-> FALSE, builds |-> <<>>]
  ELSE LET rest == get_local_builds(SubSeq(order, 1, Len(order) - 1))
           entry == order[Len(order)]
           found == extract_build_info_from_directory(entry)
       IN  IF rest.raised THEN rest
           ELSE IF ~entry.is_dir THEN rest
           ELSE IF found.raised THEN [raised |-> TRUE, builds |-> <<>>]
           ELSE [raised |-> FALSE, builds |-> Keep(rest.builds, found.info)]

\* lines 166-182: the directory is one of those delete_local_build removes
Matches(entry, version) ==
  /\ entry.is_dir
  /\ \/ IsPrefix(S_blender \o version, entry.name)
     \/ /\ Len(Split(entry.name, Dash)) > 1
        /\ name_version(entry.name) = version

\* the entries a download root is filled from
DirPool ==
  { [name |-> D_stable_time, is_dir |-> TRUE, sidecar |-> NoSidecar],
    [name |-> D_hash, is_dir |-> TRUE, sidecar |-> NoSidecar],
    [name |-> D_late, is_dir |-> TRUE, sidecar |-> BadSidecar("unreadable")],
    [name |-> D_4_10, is_dir |-> TRUE,
     sidecar |-> Sidecar("object", V_4_10, T_2023, S_main, S_stable, S_ab,
                         TRUE)],
    [name |-> D_word, is_dir |-> TRUE, sidecar |-> BadSidecar("corrupt")],
    [name |-> D_plain, is_dir |-> TRUE,
     sidecar |-> Sidecar("object", NoValue, NoValue, S_main, NoValue,
                         NoValue, TRUE)],
    [name |-> D_word, is_dir |-> TRUE, sidecar |-> BadSidecar("array")],
    [name |-> D_word, is_dir |-> TRUE,
     sidecar |-> Sidecar("object", V_2_9, T_2023, S_main, S_alpha, S_cd,
                         FALSE)],
    [name |-> D_word, is_dir |-> TRUE,
     sidecar |-> Sidecar("object", V_2_9, T_2024, S_main, S_alpha, S_cd,
                         TRUE)],
    [name |-> D_archive, is_dir |-> FALSE, sidecar |-> NoSidecar] }

\* most entries a download root holds
MaxDirs == 3

\* the download roots: entries of distinct names
Disks ==
  {S \in SUBSET DirPool :
     /\ Cardinality(S) <= MaxDirs
     /\ \A e, f \in S : e.name = f.name => e = f}

\* the versions delete_local_build is called with
DeleteVersions == {V_4_1, V_2_9, V_3_0}

\* the orders in which glob may yield the entries of S
Orders(S) ==
  {q \in [1..Cardinality(S) -> S] :
     \A i, j \in 1..Cardinality(S) : q[i] = q[j] => i = j}

\* get_local_builds() with the entries enumerated in some order
GetLocalBuilds ==
  /\ \E order \in Orders(disk) :
       call' = [kind |-> "scan", order |-> order,
                result |-> get_local_builds(order)]
  /\ UNCHANGED <<disk, pipeVars, listVars, numberVars, overlapVars>>

\* line 194 when nothing matched, and when a removal may have failed
returns_after_loop(matched, failed) == failed = {}

\* lines 184-195: False when nothing matched, else whether no rmtree raised
delete_returns(matched, failed) == matched # {} /\ failed = {}

\* lines 190-193 with the loop left at the first rmtree that raises
removed_until_failure(matched, failed) ==
  IF failed = {} THEN matched ELSE {}

\* lines 190-193: every matched directory whose rmtree did not raise is gone
removed(matched, failed) == matched \ failed

\* delete_local_build(version): rmtree raises for the directories of failed
DeleteLocalBuild(version) ==
  LET matched == {e \in disk : Matches(e, version)}
  IN  /\ \E failed \in SUBSET matched :
           /\ disk' = disk \ removed(matched, failed)
           /\ call' = [kind |-> "delete", version |-> version,
                       matched |-> matched, failed |-> failed,
                       result |-> delete_returns(matched, failed)]
      /\ UNCHANGED <<pipeVars, listVars, numberVars, overlapVars>>

\* the JSON object _create_version_info dumps for a build
sidecar_of(build) ==
  Sidecar("object", build.version, build_time(build), build.branch,
          build.risk_id, build_hash(build), TRUE)

\* the builds whose archive is unpacked: one with a hash, one without
WriteBuilds == {b \in RemotePool : b.file_mtime \in {0, 8}}

\* _create_version_info(extract_path, build) on a freshly unpacked directory
\* of the root: nothing happens without the executable; an exception while
\* the file is made removes the file; otherwise version.json holds the build
CreateVersionInfo(entry, build) ==
  /\ entry \in disk
  /\ entry.is_dir
  /\ entry.sidecar = NoSidecar
  /\ \E outcome \in {"no_executable", "raised", "written"} :
       /\ disk' =
            IF outcome = "no_executable" THEN disk
            ELSE (disk \ {entry}) \cup
                   {[entry EXCEPT !.sidecar =
                       IF outcome = "written" THEN sidecar_of(build)
                       ELSE NoSidecar]}
       /\ call' = [kind |-> "write", name |-> entry.name, build |-> build,
                   outcome |-> outcome]
  /\ UNCHANGED <<pipeVars, listVars, numberVars, overlapVars>>

\* the registry functions applied to every download root
RegistryInit ==
  /\ PipeIdle({}, {})
  /\ ListStart(<<>>, <<>>, 120)
  /\ disk \in Disks
  /\ call = [kind |-> "none"]
  /\ state = [running |-> FALSE]
  /\ later = NoLater

RegistryNext ==
  \/ GetLocalBuilds
  \/ \E version \in DeleteVersions : DeleteLocalBuild(version)
  \/ \E entry \in DirPool, build \in WriteBuilds :
       CreateVersionInfo(entry, build)

RegistrySpec == RegistryInit /\ [][RegistryNext]_vars

\* C21: delete_local_build called with a version no directory matches
\* returns False and leaves every entry of the download root as it was, at
\* the first call and at every later one.
C21_DeleteWithoutMatch ==
  [][\A version \in DeleteVersions :
       (DeleteLocalBuild(version) /\ \A e \in disk : ~Matches(e, version))
         => (call'.result = FALSE /\ disk' = disk)]_vars

\* a file named like a build of 4.1 is in the root, no directory of 4.1 is,
\* and 4.1 was deleted
C21_Witness ==
  /\ call.kind = "delete"
  /\ call.version = V_4_1
  /\ call.matched = {}
  /\ \E e \in disk : e.name = D_archive

\* C22: delete_local_build returns True only when every matched directory
\* is gone, returns False when the removal of any of them failed, and a
\* failure does not keep the other matched directories from being removed.
C22_DeleteReportsFailure ==
  call.kind = "delete" =>
    /\ call.result => (call.matched # {} /\ call.matched \cap disk = {})
    /\ call.failed # {} => ~call.result
    /\ (call.matched \ call.failed) \cap disk = {}

\* one matched directory could not be removed, another one was
C22_Witness ==
  /\ call.kind = "delete"
  /\ call.failed # {}
  /\ call.matched \ call.failed # {}
  /\ ~call.result

\* the infos of the directories of a scan that resolve to version v, in
\* the order they were found
Resolved(order, v) ==
  LET infos == [i \in 1..Len(order) |->
                  IF order[i].is_dir
                  THEN extract_build_info_from_directory(order[i]).info
                  ELSE NoInfo]
      IsV(info) == info.version = v
  IN  SelectSeq(infos, IsV)

\* of infos found for one version, the one the conflict rule leaves: the
\* first when it has no time, else the first of those with the greatest time
Survivor(found) ==
  IF found[1].time = NoValue THEN found[1]
  ELSE LET timed == {i \in 1..Len(found) : found[i].time # NoValue}
           best == CHOOSE i \in timed :
                     \A j \in timed :
                       /\ ~SeqLess(found[i].time, found[j].time)
                       /\ j < i => SeqLess(found[j].time, found[i].time)
       IN  found[best]

\* C23: in every enumeration order, the entry a scan returns for a version
\* is the one found first, replaced by a later one exactly when both have a
\* time token and the later token is lexicographically greater.
C23_ConflictRule ==
  (call.kind = "scan" /\ ~call.result.raised) =>
    \A v \in {V_4_1, V_4_10, V_2_9, V_2_2} :
      LET found == Resolved(call.order, v)
          kept == SelectSeq(call.result.builds, LAMBDA b : b.version = v)
      IN  IF found = <<>> THEN kept = <<>>
          ELSE kept = <<Survivor(found)>>

\* three directories of 4.1 were found, the first with a time token, the
\* second without, the third with a greater one, which is the one returned
C23_Witness ==
  /\ call.kind = "scan"
  /\ ~call.result.raised
  /\ Len(Resolved(call.order, V_4_1)) = 3
  /\ Resolved(call.order, V_4_1)[1].time = T_2024
  /\ Resolved(call.order, V_4_1)[2].time = NoValue
  /\ call.result.builds[1].time = T_9_30

\* C24: whatever a single directory holds, a scan returns normally and
\* returns an entry for the version of every directory that can be read.
C24_ScanBestEffort ==
  call.kind = "scan" =>
    /\ ~call.result.raised
    /\ \A i \in 1..Len(call.order) :
         LET found == extract_build_info_from_directory(call.order[i])
         IN  (call.order[i].is_dir /\ ~found.raised
                /\ found.info.version # NoValue)
               => Known(call.result.builds, found.info.version)

ParsedByName(entry) ==
  \/ entry.sidecar.kind \in {"absent", "unreadable", "corrupt"}
  \/ entry.sidecar.kind = "object" /\ entry.sidecar.version = NoValue

\* version and time token the names of the pool stand for
ExpectedVersion(dir_name) ==
  IF dir_name \in {D_stable_time, D_hash, D_late} THEN V_4_1 ELSE V_2_9

ExpectedToken(dir_name) ==
  IF dir_name = D_stable_time THEN T_2024
  ELSE IF dir_name = D_late THEN T_9_30
  ELSE NoValue

\* C26: a directory without a usable sidecar gets the second '-' component
\* of its name, cut at the first '+', as version, and as time token the last
\* two '_' segments joined by '_' when the first of them is numeric, else
\* none: blender-4.1-stable_20240115_1230 gives 4.1 and 20240115_1230,
\* blender-4.1+abcdef.hash-linux.x86_64 gives 4.1 and no token.
C26_NameParsing ==
  call.kind = "scan" =>
    \A i \in 1..Len(call.order) :
      LET entry == call.order[i]
          found == extract_build_info_from_directory(entry)
      IN  (entry.is_dir /\ ParsedByName(entry)) =>
            /\ ~found.raised
            /\ found.info.version = ExpectedVersion(entry.name)
            /\ found.info.time = ExpectedToken(entry.name)
            /\ ~call.result.raised =>
                 Known(call.result.builds, ExpectedVersion(entry.name))

\* the two named directories were scanned without a sidecar, and the entry
\* returned for 4.1 is the one with the token 20240115_1230
C26_Witness ==
  /\ call.kind = "scan"
  /\ ~call.result.raised
  /\ \E i, j \in 1..Len(call.order) :
       /\ call.order[i].name = D_stable_time
       /\ call.order[i].sidecar = NoSidecar
       /\ call.order[j].name = D_hash
       /\ call.order[j].sidecar = NoSidecar
       /\ i < j
  /\ \E k \in 1..Len(call.result.builds) :
       /\ call.result.builds[k].version = V_4_1
       /\ call.result.builds[k].time = T_2024

-----------------------------------------------------------------------------
(* Success determination *)

-----------------------------------------------------------------------------
(* The status sort key *)

\* every segment of the version is a number
NumericVersion(v) ==
  \A i \in 1..Len(SplitDots(v)) : IsDigits(SplitDots(v)[i])

\* C28: sorted ascending by the status column, every Local record comes
\* before every Online record, and records of one origin are in the numeric
\* version order of the version column (Local 2.9 before Local 2.10).
C28_StatusThenNumericVersion ==
  (running /\ sort_column = 2 /\ ~sort_reverse /\ ~CurrentList.raised) =>
    \A i, j \in 1..Len(CurrentList.list) :
      i < j =>
        LET x == CurrentList.list[i]
            y == CurrentList.list[j]
        IN  /\ ~(x[1] = "online" /\ y[1] = "local")
            /\ (x[1] = y[1] /\ NumericVersion(x[2]) /\ NumericVersion(y[2])) =>
                 VersionLess(x[2], y[2])

-----------------------------------------------------------------------------
(* The return value of a batch *)

\* C29: download_multiple_builds returns True if all requested downloads
\* were successful and False otherwise; a batch in which a requested build
\* failed to download returns False.
C29_TrueIffAllSucceeded ==
  BatchRan =>
    /\ result = "True" <=> \A v \in batch : v \in successful_downloads
    /\ (\E v \in batch : ~check_download_success(logs[v]) /\ logs[v].exists)
         => result = "False"

-----------------------------------------------------------------------------
(* Catalog errors *)

\* C30: a catalog fetch that fails does not end the UI loop and leaves the
\* remote build list, the has_fetched flag, the cursor and the selection as
\* they were; a fetch that succeeds replaces the list, sets has_fetched and
\* puts the cursor on row 0.
C30_FailedFetchKeepsState ==
  [][/\ FetchOnlineBuildsFails =>
          /\ running'
          /\ builds' = builds
          /\ has_fetched' = has_fetched
          /\ cursor_position' = cursor_position
          /\ selected_builds' = selected_builds
     /\ FetchOnlineBuilds =>
          /\ builds' = catalog
          /\ has_fetched'
          /\ cursor_position' = 0]_vars

\* a fetch has succeeded, the cursor was moved off row 0 and a build selected
\* since, and the builds page takes the fetch key: a fetch failing here
\* leaves this very state
C30_Witness ==
  /\ running /\ current_page = "builds"
  /\ has_fetched /\ builds = catalog /\ builds # <<>>
  /\ cursor_position > 0
  /\ selected_builds # {}

-----------------------------------------------------------------------------
(* The number-key revision of the UI: src/ui/tui.py *)

\* tuple(map(int, v.split(".")))
VersionTuple(v) ==
  LET segs == SplitDots(v)
  IN  [i \in 1..Len(segs) |-> ParseInt(segs[i])]

\* list.sort(key=..., reverse=...) on the first n keys: the indices of the
\* keys in sorted order; elements with equal keys keep their order
RECURSIVE InsertKeyed(_, _, _, _)
InsertKeyed(keys, reverse, sorted, i) ==
  IF sorted = <<>> THEN <<i>>
  ELSE IF (IF reverse THEN SeqLess(keys[Head(sorted)], keys[i])
           ELSE SeqLess(keys[i], keys[Head(sorted)]))
       THEN <<i>> \o sorted
       ELSE <<Head(sorted)>> \o InsertKeyed(keys, reverse, Tail(sorted), i)

RECURSIVE SortedIndices(_, _, _)
SortedIndices(keys, reverse, n) ==
  IF n = 0 THEN <<>>
  ELSE InsertKeyed(keys, reverse, SortedIndices(keys, reverse, n - 1), n)

\* some version of the listing is not a dotted number
SomeNotNumeric(list) == \E i \in 1..Len(list) : ~NumericVersion(list[i].version)

\* build_numbers is kept as the sequence of the numbered versions: the
\* version at index n holds ordinal n.  build_numbers.get(version), 0 for None
Ordinal(numbers, version) ==
  IF \E n \in 1..Len(numbers) : numbers[n] = version
  THEN CHOOSE n \in 1..Len(numbers) : numbers[n] = version
  ELSE 0

\* the numbering of a listing: versions in descending numeric order
numbering(local) ==
  LET keys  == [i \in 1..Len(local) |-> VersionTuple(local[i].version)]
      order == SortedIndices(keys, TRUE, Len(local))
  IN  [n \in 1..Len(local) |-> local[order[n]].version]

\* _initialize_build_numbers numbering every listing anew
initialize_build_numbers_each_time(numbers, local) ==
  IF local = <<>> THEN [raised |-> FALSE, numbers |-> numbers]
  ELSE IF SomeNotNumeric(local) THEN [raised |-> TRUE, numbers |-> numbers]
  ELSE [raised |-> FALSE, numbers |-> numbering(local)]

\* _initialize_build_numbers
initialize_build_numbers(numbers, local) ==
  IF numbers # <<>> \/ local = <<>>
  THEN [raised |-> FALSE, numbers |-> numbers]
  ELSE IF SomeNotNumeric(local) THEN [raised |-> TRUE, numbers |-> numbers]
  ELSE [raised |-> FALSE, numbers |-> numbering(local)]

\* _get_sorted_local_build_list: the versions in display order
get_sorted_local_build_list(s) ==
  LET local == s.local_builds
      byVersion == s.sort_column \notin {3, 4, 6}
      keys == [i \in 1..Len(local) |->
                 IF s.sort_column = 3 THEN local[i].branch
                 ELSE IF s.sort_column = 4 THEN local[i].risk_id
                 ELSE IF s.sort_column = 6 THEN <<local[i].time>>
                 ELSE VersionTuple(local[i].version)]
  IN  IF byVersion /\ SomeNotNumeric(local)
      THEN [raised |-> TRUE, list |-> <<>>]
      ELSE LET order == SortedIndices(keys, s.sort_reverse, Len(local))
           IN  [raised |-> FALSE,
                list |-> [n \in 1..Len(local) |-> local[order[n]].version]]

\* sort_builds(self.state.builds): the versions in display order
sort_builds(s) ==
  LET builds_ == s.builds
      keys == [i \in 1..Len(builds_) |->
                 IF s.sort_column = 2 THEN VersionTuple(builds_[i].version)
                 ELSE IF s.sort_column = 3 THEN builds_[i].branch
                 ELSE IF s.sort_column = 4 THEN builds_[i].risk_id
                 ELSE IF s.sort_column = 5 THEN <<builds_[i].size>>
                 ELSE IF s.sort_column = 6 THEN <<builds_[i].file_mtime>>
                 ELSE <<0>>]
  IN  IF s.sort_column = 2 /\ SomeNotNumeric(builds_)
      THEN [raised |-> TRUE, list |-> <<>>]
      ELSE LET order == IF s.sort_column = 0
                        THEN [n \in 1..Len(builds_) |-> n]
                        ELSE SortedIndices(keys, s.sort_reverse, Len(builds_))
           IN  [raised |-> FALSE,
                list |-> [n \in 1..Len(builds_) |-> builds_[order[n]].version]]

\* _get_current_build_list
get_current_build_list(s) ==
  IF s.has_fetched THEN sort_builds(s) ELSE get_sorted_local_build_list(s)

\* _has_visible_builds
has_visible_builds(s) ==
  IF s.has_fetched THEN s.builds # <<>> ELSE s.local_builds # <<>>

\* the listings a scan of the download root returns in this revision
NumberListings ==
  {q \in LocalMaps :
     \/ q = <<>>
     \/ Len(q) = 1 /\ q[1].version = V_2_9
     \/ Len(q) = 2 /\ q[1].version \in {V_2_9, V_git}
                   /\ q[2].version = V_2_10}

\* the lists a fetch returns in this revision
NumberCatalogs ==
  {c \in RemoteLists :
     Len(c) = 2 /\ c[1].version = V_2_9 /\ c[2].version = V_2_10}

\* print_build_table with the scan returning local: rescan, number, sort
\* the rows; an exception of a sort ends BlenderTUI.run
print_numbered_table(s, local) ==
  LET init == initialize_build_numbers(s.build_numbers, local)
      s1 == [s EXCEPT !.local_builds = local, !.build_numbers = init.numbers]
  IN  IF init.raised THEN [s1 EXCEPT !.running = FALSE]
      ELSE IF get_current_build_list(s1).raised
           THEN [s1 EXCEPT !.running = FALSE]
           ELSE s1

\* display_tui on the builds page: the states it may leave
display_numbered(s) ==
  IF s.has_fetched /\ s.builds = <<>> THEN {s}
  ELSE {print_numbered_table(s, local) : local \in NumberListings}

\* BlenderTUI.__init__ and the first display of run
NumberStart ==
  \E local \in NumberListings :
    LET init == initialize_build_numbers(<<>>, local)
        s == [running |-> ~init.raised, local_builds |-> local,
              builds |-> <<>>, has_fetched |-> FALSE, sort_column |-> 2,
              sort_reverse |-> TRUE, cursor_position |-> 0,
              selected_builds |-> {}, build_numbers |-> init.numbers]
    IN  state \in (IF s.running THEN display_numbered(s) ELSE {s})

\* a key handler of the builds page leaving s, then the display
Handled(s) ==
  /\ state.running
  /\ state' \in display_numbered(s)
  /\ UNCHANGED <<pipeVars, listVars, registryVars, overlapVars>>

\* _move_cursor_up
NumberedMoveCursorUp ==
  Handled([state EXCEPT !.cursor_position =
             IF state.cursor_position > 0 THEN state.cursor_position - 1
             ELSE 0])

\* _move_cursor_down
NumberedMoveCursorDown ==
  LET max_index == (IF state.has_fetched THEN Len(state.builds)
                    ELSE Len(state.local_builds)) - 1
  IN  Handled([state EXCEPT !.cursor_position =
                 IF state.cursor_position + 1 < max_index
                 THEN state.cursor_position + 1 ELSE max_index])

\* _move_column_left and _move_column_right
NumberedMoveColumn ==
  \/ /\ state.sort_column > 0
     /\ Handled([state EXCEPT !.sort_column = state.sort_column - 1])
  \/ /\ state.sort_column < 6
     /\ Handled([state EXCEPT !.sort_column = state.sort_column + 1])

\* _toggle_sort_reverse
NumberedToggleSortReverse ==
  Handled([state EXCEPT !.sort_reverse = ~state.sort_reverse])

\* _toggle_selection: selected_builds holds row indices
NumberedToggleSelection ==
  Handled(IF has_visible_builds(state)
          THEN [state EXCEPT !.selected_builds =
                  IF state.cursor_position \in state.selected_builds
                  THEN state.selected_builds \ {state.cursor_position}
                  ELSE state.selected_builds \cup {state.cursor_position}]
          ELSE state)

\* _fetch_online_builds, fetch_builds returning or raising
NumberedFetchOnlineBuilds ==
  \/ \E c \in NumberCatalogs :
       Handled([state EXCEPT !.builds = c, !.has_fetched = TRUE,
                             !.cursor_position = 0])
  \/ Handled(state)

\* the digit keys tried
Digits == 0..2

\* the rows of list whose version holds ordinal num
RowsNumbered(s, list, num) ==
  {i \in 1..Len(list) : Ordinal(s.build_numbers, list[i]) = num}

\* _handle_number_selection(num): the first row whose version holds num
handle_number_selection(s, num) ==
  LET current == get_current_build_list(s)
      rows == IF current.raised THEN {} ELSE RowsNumbered(s, current.list, num)
  IN  IF ~has_visible_builds(s) \/ rows = {} THEN s
      ELSE LET i == (CHOOSE r \in rows : \A q \in rows : r <= q) - 1
           IN  [s EXCEPT !.cursor_position = i,
                         !.selected_builds =
                           IF i \in s.selected_builds
                           THEN s.selected_builds \ {i}
                           ELSE s.selected_builds \cup {i}]

HandleNumberSelection(num) ==
  /\ ~(has_visible_builds(state) /\ get_current_build_list(state).raised)
  /\ Handled(handle_number_selection(state, num))

NumberInit ==
  /\ PipeIdle({}, {})
  /\ ListStart(<<>>, <<>>, 120)
  /\ disk = {}
  /\ call = [kind |-> "none"]
  /\ later = NoLater
  /\ NumberStart

NumberNext ==
  \/ NumberedMoveCursorUp \/ NumberedMoveCursorDown \/ NumberedMoveColumn
  \/ NumberedToggleSortReverse \/ NumberedToggleSelection
  \/ NumberedFetchOnlineBuilds
  \/ \E num \in Digits : HandleNumberSelection(num)

NumberSpec == NumberInit /\ [][NumberNext]_vars

\* C31: the ordinals are assigned once, from the first non-empty local
\* listing, and never change afterwards; digit n puts the cursor on the row
\* that shows the version holding ordinal n and toggles that row.
C31_StableOrdinals ==
  [][/\ state.build_numbers # <<>> =>
          state'.build_numbers = state.build_numbers
     /\ (state.build_numbers = <<>> /\ state'.build_numbers # <<>>) =>
          /\ state.local_builds = <<>>
          /\ {state'.build_numbers[n] : n \in 1..Len(state'.build_numbers)}
               = {state'.local_builds[i].version :
                    i \in 1..Len(state'.local_builds)}
          /\ \A m, n \in 1..Len(state'.build_numbers) :
               m < n => VersionLess(state'.build_numbers[n],
                                    state'.build_numbers[m])
     /\ \A num \in Digits :
          LET shown == get_current_build_list(state)
              row == state'.cursor_position
              held == /\ ~shown.raised
                      /\ num \in 1..Len(state.build_numbers)
                      /\ \E i \in 1..Len(shown.list) :
                           shown.list[i] = state.build_numbers[num]
              done == /\ row + 1 \in 1..Len(shown.list)
                      /\ shown.list[row + 1] = state.build_numbers[num]
                      /\ (row \in state'.selected_builds)
                           # (row \in state.selected_builds)
                      /\ state'.selected_builds \ {row}
                           = state.selected_builds \ {row}
          IN  \/ ~held
              \/ done
              \/ ~HandleNumberSelection(num)]_vars

\* the numbered versions are no longer the listed ones, a list was fetched
\* and re-sorted, and the cursor is on a selected row below the first whose
\* version holds a number
C31_Witness ==
  /\ state.running
  /\ state.build_numbers # <<>>
  /\ state.has_fetched /\ state.sort_column # 2
  /\ numbering(state.local_builds) # state.build_numbers
  /\ state.cursor_position > 0
  /\ state.cursor_position \in state.selected_builds
  /\ ~get_current_build_list(state).raised
  /\ Ordinal(state.build_numbers,
             get_current_build_list(state).list[state.cursor_position + 1]) > 0

-----------------------------------------------------------------------------
(* download_multiple_builds called by any caller *)

\* the values of log_file_paths: omitted, or a dict with a path for some of
\* the versions
PathArguments ==
  {NoPaths} \cup {[given |-> TRUE, keys |-> k] : k \in SUBSET Versions}

\* download_multiple_builds(builds, log_file_paths) is entered
DirectCall ==
  /\ dpc = "none"
  /\ wpc = "none"
  /\ \E b \in (SUBSET Versions) \ {{}}, p \in PathArguments :
       /\ batch' = b
       /\ log_file_paths' = p
  /\ dpc' = "preflight"
  /\ UNCHANGED <<fsVars, logs, fpc, should_remove, versions_to_remove,
                 successful_downloads, unpacked, tar_ok, completed_versions,
                 result, wpc, completed_builds, uiVars, listVars,
                 registryVars, numberVars, overlapVars>>

DirectNext == DirectCall \/ Fetch \/ Dmb

DirectSpec == Init /\ [][DirectNext]_vars

\* C32: in every call that passes the pre-flight, with or without
\* log_file_paths, the fetch of every requested build is started, and all
\* are started before the first join.
C32_EveryFetchStarted ==
  dpc \in {"join", "check", "remove", "extract"} =>
    \A v \in batch : fpc[v] \in {"ready", "running", "done"}

-----------------------------------------------------------------------------
(* A download command while a batch is tracked *)

\* _handle_download has no test for a running batch: the maps are emptied
\* (lines 1168-1169) and a second watcher thread is started (lines 1172-1178)
\* with its own scratch logs.  Of the later batch only what its watcher
\* writes to the shared maps is followed.
HandleDownloadAgain ==
  /\ wpc \in {"start", "poll", "final", "grace", "cleanup"}
  /\ later.wpc = "none"
  /\ \E b \in (SUBSET Versions) \ {{}} : later' = [wpc |-> "poll", batch |-> b]
  /\ download_progress' = [v \in Versions |-> NoPct]
  /\ download_speed' = [v \in Versions |-> ""]
  /\ UNCHANGED <<fsVars, batch, log_file_paths, logs, fpc, dmbVars, wpc,
                 completed_builds, listVars, registryVars, numberVars>>

\* one pass of the later watcher's loop: it publishes what its logs show
\* (the same percentage for each of its builds)
LaterWatcherPoll ==
  /\ later.wpc = "poll"
  /\ \E seen \in {later.batch}, p \in PctValues :
       /\ download_progress' =
            [v \in Versions |-> IF v \in seen THEN p ELSE download_progress[v]]
       /\ download_speed' =
            [v \in Versions |->
               IF v \in seen
               THEN IF p >= 100 THEN "Extracting..." ELSE "rate"
               ELSE download_speed[v]]
  /\ \E next \in {"poll", "final"} : later' = [later EXCEPT !.wpc = next]
  /\ UNCHANGED <<fsVars, batch, log_file_paths, logs, fpc, dmbVars, wpc,
                 completed_builds, listVars, registryVars, numberVars>>

\* lines 1297-1314 of the later watcher: final update, then the maps are
\* emptied
LaterWatcherEnd ==
  /\ \/ /\ later.wpc = "final"
        /\ download_progress' =
             [v \in Versions |->
                IF v \in later.batch THEN 100 ELSE download_progress[v]]
        /\ download_speed' =
             [v \in Versions |->
                IF v \in later.batch THEN "Complete" ELSE download_speed[v]]
        /\ later' = [later EXCEPT !.wpc = "grace"]
     \/ /\ later.wpc = "grace"
        /\ download_progress' = [v \in Versions |-> NoPct]
        /\ download_speed' = [v \in Versions |-> ""]
        /\ later' = [later EXCEPT !.wpc = "done"]
  /\ UNCHANGED <<fsVars, batch, log_file_paths, logs, fpc, dmbVars, wpc,
                 completed_builds, listVars, registryVars, numberVars>>

OverlapNext ==
  Next \/ HandleDownloadAgain \/ LaterWatcherPoll \/ LaterWatcherEnd

\* an empty download root
OverlapInit ==
  /\ PipeIdle({}, {})
  /\ ListStart(ScanDisk({}), <<>>, 120)
  /\ RegistryIdle

OverlapSpec == OverlapInit /\ [][OverlapNext]_vars

\* C33: while the watcher of a batch is in its loop, no second watcher is
\* started, and no entry that batch has published is taken out of the
\* progress map.
C33_OneBatchTracked ==
  [][(wpc \in {"start", "poll"} /\ wpc' \in {"start", "poll"}) =>
       /\ later'.wpc = "none"
       /\ \A v \in batch :
            download_progress[v] # NoPct => download_progress'[v] # NoPct
    ]_vars

-----------------------------------------------------------------------------
(* Completed versions and their sidecar *)

\* C34: every version the batch counts as completed has a version.json in
\* its extracted directory when the call returns; a version for which no
\* sidecar was written is not completed and keeps its archive.
C34_CompletedHasSidecar ==
  dpc = "returned" =>
    \A v \in batch :
      /\ v \in completed_versions => v \in sidecar
      /\ (v \in unpacked /\ v \notin sidecar) =>
           (v \notin completed_versions /\ v \in archive)

-----------------------------------------------------------------------------
(* Which directories a removal takes *)

\* C35: delete_local_build(v) removes no directory whose parsed version
\* differs from v (deleting 4.1 leaves the directory of 4.10).
C35_RemovesOnlyItsVersion ==
  call.kind = "delete" =>
    \A e \in call.matched \ call.failed :
      name_version(e.name) = call.version

-----------------------------------------------------------------------------
(* Updating an installed build *)

\* download.py lines 275-276: the directory an archive of the build server
\* unpacks to, blender-<version>-<risk>+<branch>.<hash>
extracted_dir_name(build) ==
  S_blender \o build.version \o <<Dash>> \o build.risk_id \o <<Plus>>
    \o build.branch \o <<Dot>> \o build.hash

\* the directory of a build after extraction, with the sidecar
\* _create_version_info wrote or without one
InstalledEntry(build, written) ==
  [name |-> extracted_dir_name(build), is_dir |-> TRUE,
   sidecar |-> IF written THEN sidecar_of(build) ELSE NoSidecar]

\* the builds of the server that carry a modification time
UpdateBuilds == {b \in RemotePool : b.file_mtime # 0}

\* download roots left by earlier installs
UpdateDisks ==
  {S \in SUBSET {InstalledEntry(b, TRUE) : b \in UpdateBuilds} :
     Cardinality(S) <= 2}

\* the lists fetch_builds returns for them
UpdateCatalogs ==
  {c \in RemoteLists :
     Len(c) \in 1..2 /\ \A i \in 1..Len(c) : c[i] \in UpdateBuilds}

\* the LocalBuildInfo of local_builds.py lines 66-76 and 92-97 as a row of
\* the local map: the time token of a sidecar is the build_time of a build
AsLocal(info) ==
  [version |-> info.version, branch |-> info.branch,
   risk_id |-> info.risk_id, hash |-> info.hash, size |-> 0,
   time |-> IF info.time = NoValue THEN 0 ELSE info.time[1]]

AsLocalMap(infos) == [i \in 1..Len(infos) |-> AsLocal(infos[i])]

\* the last online build of the version
last_build(remote, v) ==
  remote[CHOOSE j \in 1..Len(remote) :
           /\ remote[j].version = v
           /\ \A k \in (j + 1)..Len(remote) : remote[k].version # v]

\* tui.py lines 1109-1123 and 1129-1137: the first online build of the
\* version is the one downloaded
first_build(remote, v) ==
  remote[CHOOSE j \in 1..Len(remote) :
           /\ remote[j].version = v
           /\ \A k \in 1..(j - 1) : remote[k].version # v]

\* download.py lines 157-166: the directories blender-<version>* of the root
existing(root, version) ==
  {e \in root : e.is_dir /\ IsPrefix(S_blender \o version, e.name)}

\* the root after download_multiple_builds, the removal confirmed: when a
\* fetch succeeded every existing directory of the batch is removed unless
\* rm fails, then each fetched archive is unpacked and gets its sidecar
\* unless _create_version_info leaves none
root_after(root, requested, done, failed, written) ==
  IF done = {} THEN root
  ELSE LET kept == root \ (UNION {existing(root, b.version) :
                                    b \in requested} \ failed)
           names == {extracted_dir_name(b) : b \in done}
       IN  {e \in kept : e.name \notin names}
             \cup {InstalledEntry(b, b \in written) : b \in done}

\* _handle_download to the end of its tracking thread, on the download
\* root: the pipeline runs, the thread stores the rescan, the loop redraws
UpdateDownload ==
  /\ running
  /\ current_page = "builds"
  /\ builds_to_download # {}
  /\ LET requested == {first_build(builds, v) : v \in builds_to_download}
         matched == UNION {existing(disk, b.version) : b \in requested}
     IN  \E done \in SUBSET requested, failed \in SUBSET matched,
            written \in SUBSET requested :
           /\ written \subseteq done
           /\ done = {} => failed = {}
           /\ LET after == root_after(disk, requested, done, failed, written)
              IN  /\ disk' = after
                  /\ \E order \in Orders(after) :
                       /\ call' = [kind |-> "update", done |-> done,
                                   matched |-> matched, failed |-> failed,
                                   written |-> written, order |-> order]
                       /\ root_builds' =
                            AsLocalMap(get_local_builds(order).builds)
  /\ UNCHANGED <<current_page, catalog, builds, has_fetched, sort_column,
                 sort_reverse, terminal_width, cursor_position,
                 selected_builds>>
  /\ RescanAndDisplay
  /\ UNCHANGED <<pipeVars, numberVars, overlapVars>>

\* the builds page over a download root of earlier installs
UpdateInit ==
  /\ PipeIdle({}, {})
  /\ call = [kind |-> "none"]
  /\ state = [running |-> FALSE]
  /\ later = NoLater
  /\ \E d \in UpdateDisks, c \in UpdateCatalogs :
       /\ disk = d
       /\ \E order \in Orders(d) :
            ListStart(AsLocalMap(get_local_builds(order).builds), c, 120)

UpdateNext ==
  \/ MoveCursorUp \/ MoveCursorDown \/ ToggleSelection
  \/ FetchOnlineBuilds
  \/ UpdateDownload

UpdateSpec == UpdateInit /\ [][UpdateNext]_vars

-----------------------------------------------------------------------------
(* Scratch logs and the success determination *)

\* C37: in every interleaving of the watcher with the pipeline, a scratch
\* log is deleted only after download_multiple_builds has returned, so the
\* success determination finds the log of every task it started and counts
\* every fetch that ended with 100% and no error marker as successful.
C37_LogOutlivesCheck ==
  [][/\ \A v \in Versions :
          (logs[v].exists /\ ~logs'[v].exists) =>
            (v \in batch /\ dpc = "returned" /\ wpc = "cleanup")
     /\ (dpc = "check" /\ dpc' = "remove") =>
          \A v \in threads(batch, log_file_paths) :
            /\ logs[v].exists
            /\ (logs[v].pct = 100 /\ ~logs[v].err) =>
                 v \in successful_downloads'
    ]_vars

\* a task the watcher saw at 100% was judged successful by the pipeline,
\* and its log is deleted now that the call has returned
C37_Witness ==
  /\ wpc = "done"
  /\ dpc = "returned"
  /\ \E v \in batch :
       /\ v \in completed_builds
       /\ v \in successful_downloads
       /\ ~logs[v].exists

-----------------------------------------------------------------------------
(* Exceptions of the sort *)

\* C38: building and sorting the combined list raises under no sort column
\* or direction, for any local map and any remote list, a local build with
\* a non-numeric version included.
C38_SortNeverRaises ==
  /\ ~combined.raised
  /\ ~CurrentList.raised

-----------------------------------------------------------------------------
(* Range of the published percentage *)

====
